---- MODULE Spec2Model ----
(***************************************************************************)
(* A model of the metrics cache of axum-sse                                *)
(* (src/src/services/metrics_cache.rs): the keyed store of snapshots with  *)
(* TTL expiry, LRU batch eviction, statistics and background refresh, as   *)
(* it is used by concurrently scheduled tasks.                             *)
(*                                                                         *)
(* Time is a discrete clock `now`; an Instant is the value of the clock    *)
(* when it was taken.  A snapshot (ServerMetrics) is identified by the     *)
(* number of the Collector call that produced it, so two snapshots are     *)
(* equal exactly when they come from the same collection.  The running     *)
(* average of collection latencies (average_collection_time_ms, a float)   *)
(* and the per-entry collection_time_ms are not modelled: nothing else in  *)
(* the cache reads them.                                                   *)
(***************************************************************************)
EXTENDS Integers, Sequences, FiniteSets, TLC

\* ---------------------------------------------------------------- bounds

\* Largest max_entries a cache is configured with.
MaxEntriesBound == 2
\* ttl_seconds of the configuration, in clock ticks.
TtlTicks == 2
\* The clock stops advancing at MaxTime.
MaxTime == 3
\* Cap on get_metrics calls (stats.total_requests) of the caller of Spec.
MaxRequests == 3
\* Caps on get_metrics calls and on Collector calls with the background refresh.
BgMaxRequests == 2
BgMaxCollects == 2
\* max_concurrent_refreshes of the configuration.
MaxConcurrentRefreshes == 1
\* prefetch_threshold_percent of the configuration, in percent of the TTL.
PrefetchThresholdPct == 50
\* The large cache of SpecLru: its max_entries, and the caps on its caller's
\* get_metrics calls and on those of them that hit.
LruMaxEntries == 8
LruMaxRequests == 10
LruMaxHits == 1
\* SpecLoops: the cap on its caller's get_metrics calls, the number of
\* Collector calls after which the loops' timers fire no more while the
\* refresh is active, and the last instant of its clock.
LoopsMaxRequests == 2
LoopsMaxCollects == 2
LoopsMaxTime == 1

\* SpecRace: the caps on get_metrics calls and on Collector calls, and the
\* last instant of its clock.
RaceMaxRequests == 2
RaceMaxCollects == 3
RaceMaxTime == 1

\* SpecSse: the capacity the broadcast channel is created with (100 in
\* SseService::new), the number of timer ticks of the broadcaster, and the
\* number of start_time_broadcaster calls.
ChannelCapacity == 3
MaxTicks == 5
MaxBroadcasters == 1

\* SpecMs: the get_metrics calls of the metrics streams and the clock.
MsMaxRequests == 2
MsMaxTime == 3

\* SpecErr: the number of error values, nested ones included, in the errors
\* that are put together.
ErrMaxNodes == 4

\* SpecCollect: the largest readings of the system (total memory, number of
\* CPUs, CPU usage, uptime) and the cap on collect_fresh_metrics calls.
MaxTotalMemory == 1
MaxCpus == 2
MaxCpuUsage == 1
MaxUptime == 1
CollectMaxCalls == 3

\* SpecForce: the cap on get_metrics calls, the cap on Collector calls up to
\* which forced requests are made, and the last instant of its clock.
ForceMaxRequests == 2
ForceMaxCollects == 2
ForceMaxTime == 1

\* SpecLive: the cap on get_metrics calls and the number of Collector calls
\* after which the loop's timer fires no more.
LiveMaxRequests == 2
LiveMaxCollects == 1

\* ---------------------------------------------------------------- universes

\* Cache keys; "default" is the key used when the caller passes None.
Keys == {"default", "a", "b"}
\* The keys the caller of SpecLru asks for, in the order it first asks for them.
LruKeySeq == <<"k01", "k02", "k03", "k04", "k05", "k06",
               "k07", "k08", "k09", "k10", "k11", "k12">>
\* Foreground tasks calling into the shared cache.
Tasks == {"t1", "t2"}
\* Background refresh loops that may be spawned, in the order they are spawned.
LoopIdSeq == <<"l1", "l2">>
LoopIds == {LoopIdSeq[i] : i \in 1..Len(LoopIdSeq)}
\* Error kinds a hard failure may carry (the Collector's own is MultipleErrors).
ErrorKinds == {"MultipleErrors", "SystemUnavailable"}
\* Error lists a partial collection may carry.
PartialErrorLists == {<<"CpuError">>, <<"CpuError", "NetworkError">>}

\* SSE connections: each create_time_stream call gets a connection id of its own.
Conns == {"c1", "c2"}

NoTask == "none"
NoKey == "none"

VARIABLES
    config,            \* MetricsCache.config
    cache,             \* MetricsCache.cache: key -> CacheEntry (a HashMap)
    access_order,      \* MetricsCache.access_order: VecDeque of keys, oldest first
    stats,             \* MetricsCache.stats
    now,               \* the monotonic clock read by Instant::now()
    total_collections, \* MetricsService.collection_stats.total_collections
    cache_writer,      \* holder of the write side of the cache RwLock
    cache_readers,     \* holders of the read side of the cache RwLock
    ao_holder,         \* holder of the access_order Mutex
    pc,                \* each task's position ("done": its call has returned)
    call,              \* the method each task is in, or was in last
    key,               \* each task's `key` local in get_metrics
    result,            \* each task's result: the value its call returns
    expired_keys,      \* each task's `expired_keys` local in cleanup_expired
    background_refresh_active, \* MetricsCache.background_refresh_active
    loops,             \* each spawned background loop's position
    refreshes,         \* each loop's refresh tasks of this tick, the running one first
    \* History variables: they record what happened and are read by no action.
    recency,           \* the keys of the map, least recently accessed first
    called_at,         \* the clock when each task's current (or last) call began
    follows,           \* how each task's current call relates to its previous one
    \* SseService and its time streams.
    service_alive,     \* the application still holds the SseService (a Sender)
    broadcasters,      \* the broadcaster tasks spawned by start_time_broadcaster
    ticks,             \* the timer ticks of the broadcaster so far
    channel,           \* the values the broadcast channel retains, oldest first
    tail_pos,          \* the channel's tail position: the values stored so far
    conn,              \* each connection: "none", "open" (its stream exists),
                       \* "ended" (the stream has ended) or "dropped" (the
                       \* client is gone and the stream was dropped)
    rx_next,           \* each stream's receiver: the position it reads next
    \* History variables of the SSE part.
    sse_log,           \* every value the channel has stored, in send order
    delivered,         \* the events each stream has yielded, in order
    \* ServerStatusState and the metrics streams of /api/server-status-stream.
    server_info,       \* ServerStatusState.server_info
    collection_interval_seconds, \* MetricsService.config.collection_interval_seconds
    invalid_metrics,   \* the Collector's snapshots that ServerMetrics::validate rejects
    stream,            \* each connection's MetricsStream: "none", "open",
                       \* "panicked" (poll_next has panicked) or "dropped"
    sequence,          \* MetricsStream.sequence
    events_sent,       \* MetricsStream.state.events_sent
    \* History variable of the metrics streams.
    emitted,           \* the events each MetricsStream has yielded, in order
    \* Collection errors and the response of get_server_status.
    errors,            \* a Vec<MetricsCollectionError> that is being put together
    response,          \* the response of the last get_server_status that failed
    \* MetricsService and the system it reads.
    collect_network_metrics, \* MetricsService.config.collect_network_metrics
    system,            \* MetricsService.system: what sysinfo read last
    collection         \* the response of the last perform_collection

histvars == <<recency, called_at, follows>>
fgvars == <<pc, call, key, result, expired_keys>>
bgvars == <<background_refresh_active, loops, refreshes>>
lockvars == <<cache_writer, cache_readers, ao_holder>>

timevars == <<service_alive, broadcasters, ticks, channel, tail_pos, conn,
              rx_next, sse_log, delivered>>
statusvars == <<server_info, collection_interval_seconds, invalid_metrics>>
msvars == <<statusvars, stream, sequence, events_sent, emitted>>
errvars == <<errors, response>>
collectvars == <<collect_network_metrics, system, collection>>
ssevars == <<timevars, msvars, errvars, collectvars>>
cachevars == <<config, cache, access_order, stats, now, total_collections,
               lockvars, fgvars, bgvars, histvars>>

vars == <<cachevars, ssevars>>

\* ---------------------------------------------------------------- values

MetricsOk(m) == [tag |-> "Ok", data |-> m, errors |-> <<>>]
MetricsPartialData(m, errs) == [tag |-> "PartialData", data |-> m, errors |-> errs]
MetricsError(e) == [tag |-> "Error", data |-> 0, errors |-> <<e>>]
CountResult(n) == [tag |-> "count", data |-> n, errors |-> <<>>]
UnitResult == [tag |-> "unit", data |-> 0, errors |-> <<>>]
NoResult == [tag |-> "none", data |-> 0, errors |-> <<>>]

\* What one Collector call may return; m is the snapshot it would produce.
CollectorOutcomes(m) ==
    {MetricsOk(m)}
    \cup {MetricsPartialData(m, errs) : errs \in PartialErrorLists}
    \cup {MetricsError(e) : e \in ErrorKinds}

\* get_metrics: cache_key.unwrap_or_else(|| "default")
KeyOrDefault(arg) == IF arg = NoKey THEN "default" ELSE arg

\* An entry that does not hold the snapshot it is created for.
NewEntryWithoutData(metrics, k) ==
    [data |-> 0, created_at |-> now, accessed_at |-> now,
     access_count |-> 1, cache_key |-> k]
NewEntry(metrics, k) ==
    [data |-> metrics, created_at |-> now, accessed_at |-> now,
     access_count |-> 1, cache_key |-> k]

\* An expiry test that already fires when the age equals the TTL.
IsExpiredAtTtl(entry, ttl) == now - entry.created_at >= ttl
IsExpired(entry, ttl) == now - entry.created_at > ttl

\* A prefetch test without the lower bound: expired entries pass it.
ShouldPrefetchExpiredToo(entry, ttl, threshold_pct) ==
    (ttl - (now - entry.created_at)) * 100 <= threshold_pct * ttl

\* remaining_ratio = 1 - elapsed / ttl, compared in percent of the TTL.
ShouldPrefetch(entry, ttl, threshold_pct) ==
    LET remaining == ttl - (now - entry.created_at)
    IN remaining * 100 <= threshold_pct * ttl /\ remaining > 0

DefaultStats ==
    [total_requests |-> 0, cache_hits |-> 0, cache_misses |-> 0, evictions |-> 0,
     background_refreshes |-> 0, failed_refreshes |-> 0, current_entries |-> 0,
     hit_ratio |-> <<0, 1>>]

\* A ratio computed from the misses in place of the hits.
CalculateMissRatio(s) ==
    IF s.total_requests > 0
    THEN [s EXCEPT !.hit_ratio = <<s.cache_misses, s.total_requests>>]
    ELSE s

\* hit_ratio is kept as the pair <<cache_hits, total_requests>> it was computed from.
CalculateHitRatio(s) ==
    IF s.total_requests > 0
    THEN [s EXCEPT !.hit_ratio = <<s.cache_hits, s.total_requests>>]
    ELSE s

\* ---------------------------------------------------------------- sequences

RECURSIVE RemoveFirst(_, _)
RemoveFirst(seq, k) ==
    IF seq = <<>> THEN <<>>
    ELSE IF Head(seq) = k THEN Tail(seq)
    ELSE <<Head(seq)>> \o RemoveFirst(Tail(seq), k)

\* A removal from the access order that removes nothing.
RemoveNone(seq, ks) == seq
RECURSIVE RemoveFirstOfEach(_, _)
RemoveFirstOfEach(seq, ks) ==
    IF ks = {} THEN seq
    ELSE LET k == CHOOSE x \in ks : TRUE
         IN RemoveFirstOfEach(RemoveFirst(seq, k), ks \ {k})

Max(a, b) == IF a >= b THEN a ELSE b
Min(a, b) == IF a <= b THEN a ELSE b

\* A map whose remove takes nothing out.
MapRemoveNothing(m, ks) == m
MapRemove(m, ks) == [k \in DOMAIN m \ ks |-> m[k]]
\* A map whose insert stores nothing.
MapInsertNothing(m, k, e) == m
MapInsert(m, k, e) == [x \in DOMAIN m \cup {k} |-> IF x = k THEN e ELSE m[x]]
EmptyMap == [k \in {} |-> 0]

\* ---------------------------------------------------------------- cache internals

\* An access-order update that appends the key without removing its old position.
UpdateAccessOrderAppendOnly(order, k) == Append(order, k)
UpdateAccessOrder(order, k) == Append(RemoveFirst(order, k), k)

EvictDivisor == 4
\* An eviction pass that takes one key whatever max_entries is.
EvictCountOne(max_entries) == 1
EvictCount(max_entries) == Max(max_entries \div EvictDivisor, 1)

\* The keys pop_front yields in the eviction loop: the first evict_count keys of
\* the access order, or all of it when it is shorter.
EvictedKeys(order, max_entries) ==
    {order[i] : i \in 1..Min(EvictCount(max_entries), Len(order))}

OrderAfterEvict(order, max_entries) ==
    SubSeq(order, Min(EvictCount(max_entries), Len(order)) + 1, Len(order))

NeedsEviction(m, max_entries) == Cardinality(DOMAIN m) >= max_entries

\* ---------------------------------------------------------------- initial state

MetricsCacheConfig(max_entries, enable) ==
    [max_entries |-> max_entries,
     ttl |-> TtlTicks,
     enable_background_refresh |-> enable,
     prefetch_threshold_pct |-> PrefetchThresholdPct,
     max_concurrent_refreshes |-> MaxConcurrentRefreshes]

\* No get_server_status has failed yet.
NoResponse == [status |-> "none"]

\* MetricsServiceConfig::default().collection_interval_seconds
DefaultCollectionIntervalSeconds == 5

\* The ServerInfo of lib.rs (create_app) and the one of main.rs's
\* create_test_services, by the fields that differ.
LibServerInfo == [hostname |-> "test-server", environment |-> "development"]
TestServerInfo == [hostname |-> "test-server", environment |-> "test"]

\* SseService::new: the channel is empty, and the receiver that
\* broadcast::channel returns with the sender is dropped at once.
SseNew ==
    /\ service_alive = TRUE
    /\ broadcasters = 0
    /\ ticks = 0
    /\ channel = <<>>
    /\ tail_pos = 0
    /\ conn = [c \in Conns |-> "none"]
    /\ rx_next = [c \in Conns |-> 0]
    /\ sse_log = <<>>
    /\ delivered = [c \in Conns |-> <<>>]

\* ServerStatusState::new takes the ServerInfo it is given, without validating
\* it; no MetricsStream exists yet.
ServerStatusStateNew(Infos, Intervals, Invalid) ==
    /\ server_info \in Infos
    /\ collection_interval_seconds \in Intervals
    /\ invalid_metrics \in Invalid
    /\ stream = [c \in Conns |-> "none"]
    /\ sequence = [c \in Conns |-> 0]
    /\ events_sent = [c \in Conns |-> 0]
    /\ emitted = [c \in Conns |-> <<>>]

\* What sysinfo reports: the total memory, the number of CPUs, the global CPU
\* usage in percent (of no CPU when there is none) and the uptime in seconds.
Readings ==
    {r \in [total_memory : 0..MaxTotalMemory, cpus : 0..MaxCpus,
            cpu_usage : 0..MaxCpuUsage, uptime : 0..MaxUptime] :
        r.cpus = 0 => r.cpu_usage = 0}

\* The reading of a machine that runs: memory, a CPU whose usage is not yet
\* measured, a positive uptime.
FirstReading == [total_memory |-> 1, cpus |-> 1, cpu_usage |-> 0, uptime |-> 1]

\* MetricsService::with_config, for a collect_network_metrics of the set Flags.
MetricsServiceWithConfig(Flags) ==
    /\ collect_network_metrics \in Flags
    /\ system = FirstReading
    /\ collection = NoResult

\* The application state after construction: MetricsCache::with_config, for a
\* configuration of the set C, SseService::new and ServerStatusState::new; the
\* MetricsService is set apart.
InitRest(C, Infos, Intervals, Invalid) ==
    /\ SseNew
    /\ ServerStatusStateNew(Infos, Intervals, Invalid)
    /\ errors = <<>>
    /\ response = NoResponse
    /\ config \in C
    /\ cache = EmptyMap
    /\ access_order = <<>>
    /\ stats = DefaultStats
    /\ now = 0
    /\ total_collections = 0
    /\ cache_writer = NoTask
    /\ cache_readers = {}
    /\ ao_holder = NoTask
    /\ pc = [t \in Tasks |-> "idle"]
    /\ call = [t \in Tasks |-> "none"]
    /\ key = [t \in Tasks |-> NoKey]
    /\ result = [t \in Tasks |-> NoResult]
    /\ expired_keys = [t \in Tasks |-> {}]
    /\ background_refresh_active = FALSE
    /\ loops = [l \in LoopIds |-> "absent"]
    /\ refreshes = [l \in LoopIds |-> <<>>]
    /\ recency = <<>>
    /\ called_at = [t \in Tasks |-> 0]
    /\ follows = [t \in Tasks |-> "none"]

\* The same with MetricsServiceConfig::default().
InitApp(C, Infos, Intervals, Invalid) ==
    /\ MetricsServiceWithConfig({TRUE})
    /\ InitRest(C, Infos, Intervals, Invalid)

\* The application as lib.rs builds it: a ServerInfo that ServerInfo::new has
\* validated, the default collection interval, a Collector whose snapshots
\* all pass validation.
InitWith(C) ==
    InitApp(C, {LibServerInfo}, {DefaultCollectionIntervalSeconds}, {{}})

\* ---------------------------------------------------------------- history

\* A task is free to make a call before its first one and once its last one
\* has returned; it holds the last call's return value until it calls again.
Free(t) == pc[t] \in {"idle", "done"}

SuccessTags == {"Ok", "PartialData"}

\* How a call of method m (with key k, for get_metrics) that task t makes now
\* relates to the call t made just before it.  A cleanup_expired that follows a
\* cleanup_expired is told apart by whether an entry that was within its TTL
\* when the first call began has passed it since.
Relation(t, m, k) ==
    IF pc[t] # "done" THEN "none"
    ELSE IF m = "get_metrics" /\ call[t] = "get_metrics" /\ key[t] = k
            /\ result[t].tag \in SuccessTags
         THEN "get_after_successful_get"
    ELSE IF m = "get_metrics" /\ call[t] = "clear"
         THEN "get_after_clear"
    ELSE IF m = "cleanup_expired" /\ call[t] = "cleanup_expired"
         THEN IF \A x \in DOMAIN cache :
                    now - cache[x].created_at > config.ttl
                       => called_at[t] - cache[x].created_at > config.ttl
              THEN "cleanup_after_cleanup"
              ELSE "cleanup_after_cleanup_and_expiry"
    ELSE "none"

\* Task t enters method m.
CallBegins(t, m, k) ==
    /\ call' = [call EXCEPT ![t] = m]
    /\ called_at' = [called_at EXCEPT ![t] = now]
    /\ follows' = [follows EXCEPT ![t] = Relation(t, m, k)]

\* The keys still in the map, in the order of their last access, k (when given)
\* being accessed now.
Accessed(order, k, present) ==
    LET kept == SelectSeq(order, LAMBDA x : x \in present /\ x # k)
    IN IF k \in present THEN Append(kept, k) ELSE kept

\* ---------------------------------------------------------------- the clock

Tick ==
    /\ now' = now + 1
    /\ UNCHANGED <<ssevars, config, cache, access_order, stats, total_collections,
                   lockvars, fgvars, bgvars, histvars>>

\* ---------------------------------------------------------------- get_metrics

\* get_metrics entry: key defaulting and total_requests += 1.
GetMetrics(t, arg) ==
    /\ Free(t)
    /\ CallBegins(t, "get_metrics", KeyOrDefault(arg))
    /\ key' = [key EXCEPT ![t] = KeyOrDefault(arg)]
    /\ result' = [result EXCEPT ![t] = NoResult]
    /\ stats' = [stats EXCEPT !.total_requests = @ + 1]
    /\ pc' = [pc EXCEPT ![t] = "get_lookup"]
    /\ UNCHANGED <<ssevars, config, cache, access_order, now, total_collections,
                   lockvars, expired_keys, bgvars, recency>>

\* A lookup that keeps the read lock when it finds nothing to return.
GetFromCacheKeepsLock(t) ==
    /\ pc[t] = "get_lookup"
    /\ cache_writer = NoTask
    /\ cache_readers' = cache_readers \cup {t}
    /\ IF key[t] \in DOMAIN cache /\ ~IsExpired(cache[key[t]], config.ttl)
       THEN /\ pc' = [pc EXCEPT ![t] = "get_hit_order"]
            /\ recency' = Accessed(recency, key[t], DOMAIN cache)
       ELSE /\ pc' = [pc EXCEPT ![t] = "get_miss_stats"]
            /\ recency' = recency
    /\ UNCHANGED <<ssevars, config, cache, access_order, stats, now, total_collections,
                   cache_writer, ao_holder, call, key, result, expired_keys,
                   bgvars, called_at, follows>>

\* get_from_cache up to its await on the access-order lock: take the read lock,
\* look the key up and test expiry.  Absent or expired: the lock is dropped and
\* None is returned.
GetFromCache(t) ==
    /\ pc[t] = "get_lookup"
    /\ cache_writer = NoTask
    /\ IF key[t] \in DOMAIN cache /\ ~IsExpired(cache[key[t]], config.ttl)
       THEN /\ cache_readers' = cache_readers \cup {t}
            /\ pc' = [pc EXCEPT ![t] = "get_hit_order"]
            /\ recency' = Accessed(recency, key[t], DOMAIN cache)
       ELSE /\ cache_readers' = cache_readers
            /\ pc' = [pc EXCEPT ![t] = "get_miss_stats"]
            /\ recency' = recency
    /\ UNCHANGED <<ssevars, config, cache, access_order, stats, now, total_collections,
                   cache_writer, ao_holder, call, key, result, expired_keys,
                   bgvars, called_at, follows>>

\* A hit that hands the stored data out as partial data.
GetHitOrderPartial(t) ==
    /\ pc[t] = "get_hit_order"
    /\ ao_holder = NoTask
    /\ access_order' = UpdateAccessOrder(access_order, key[t])
    /\ result' = [result EXCEPT ![t] =
                     MetricsPartialData(cache[key[t]].data, <<"CpuError">>)]
    /\ cache_readers' = cache_readers \ {t}
    /\ pc' = [pc EXCEPT ![t] = "get_hit_stats"]
    /\ UNCHANGED <<ssevars, config, cache, stats, now, total_collections, cache_writer,
                   ao_holder, call, key, expired_keys, bgvars, histvars>>

\* The rest of get_from_cache on a hit: update the access order under its lock,
\* clone the data, drop the read lock.
GetHitOrder(t) ==
    /\ pc[t] = "get_hit_order"
    /\ ao_holder = NoTask
    /\ access_order' = UpdateAccessOrder(access_order, key[t])
    /\ result' = [result EXCEPT ![t] = MetricsOk(cache[key[t]].data)]
    /\ cache_readers' = cache_readers \ {t}
    /\ pc' = [pc EXCEPT ![t] = "get_hit_stats"]
    /\ UNCHANGED <<ssevars, config, cache, stats, now, total_collections, cache_writer,
                   ao_holder, call, key, expired_keys, bgvars, histvars>>

\* A hit that is counted as a miss as well.
GetHitStatsCountsBoth(t) ==
    /\ pc[t] = "get_hit_stats"
    /\ stats' = CalculateHitRatio([stats EXCEPT !.cache_hits = @ + 1,
                                                !.cache_misses = @ + 1])
    /\ pc' = [pc EXCEPT ![t] = "done"]
    /\ UNCHANGED <<ssevars, config, cache, access_order, now, total_collections,
                   lockvars, call, key, result, expired_keys, bgvars, histvars>>

\* Hit: cache_hits += 1, hit ratio recomputed, return Ok(metrics).
GetHitStats(t) ==
    /\ pc[t] = "get_hit_stats"
    /\ stats' = CalculateHitRatio([stats EXCEPT !.cache_hits = @ + 1])
    /\ pc' = [pc EXCEPT ![t] = "done"]
    /\ UNCHANGED <<ssevars, config, cache, access_order, now, total_collections,
                   lockvars, call, key, result, expired_keys, bgvars, histvars>>

\* Miss: cache_misses += 1, hit ratio recomputed.
GetMissStats(t) ==
    /\ pc[t] = "get_miss_stats"
    /\ stats' = CalculateHitRatio([stats EXCEPT !.cache_misses = @ + 1])
    /\ pc' = [pc EXCEPT ![t] = "get_collect"]
    /\ UNCHANGED <<ssevars, config, cache, access_order, now, total_collections,
                   lockvars, call, key, result, expired_keys, bgvars, histvars>>

\* A get_metrics that goes on to put_in_cache whatever the Collector returned.
CollectedAlwaysStored(t, r) ==
    /\ pc[t] = "get_collect"
    /\ total_collections' = total_collections + 1
    /\ result' = [result EXCEPT ![t] = r]
    /\ pc' = [pc EXCEPT ![t] = "get_put"]
    /\ UNCHANGED <<ssevars, config, cache, access_order, stats, now, lockvars, call, key,
                   expired_keys, bgvars, histvars>>

\* collect_fresh_metrics returns r.  A hard Error is returned as it is.
Collected(t, r) ==
    /\ pc[t] = "get_collect"
    /\ total_collections' = total_collections + 1
    /\ result' = [result EXCEPT ![t] = r]
    /\ pc' = [pc EXCEPT ![t] = IF r.tag = "Error" THEN "done" ELSE "get_put"]
    /\ UNCHANGED <<ssevars, config, cache, access_order, stats, now, lockvars, call, key,
                   expired_keys, bgvars, histvars>>

GetCollect(t) ==
    \E r \in CollectorOutcomes(total_collections + 1) : Collected(t, r)

\* An insert that leaves an entry that is already stored under the key as it is.
PutInCacheKeepsExisting(t) ==
    /\ pc[t] = "get_put"
    /\ cache_writer = NoTask /\ cache_readers = {}
    /\ ao_holder = NoTask
    /\ cache_writer' = t
    /\ cache' = IF key[t] \in DOMAIN cache
                THEN cache
                ELSE MapInsert(cache, key[t], NewEntry(result[t].data, key[t]))
    /\ UNCHANGED <<access_order, stats>>
    /\ recency' = Accessed(recency, key[t], DOMAIN cache')
    /\ pc' = [pc EXCEPT ![t] = "get_put_order"]
    /\ UNCHANGED <<ssevars, config, now, total_collections, cache_readers, ao_holder,
                   call, key, result, expired_keys, bgvars, called_at, follows>>

\* put_in_cache up to its await on the access-order lock in update_access_order:
\* take the write lock, evict when the map is full, insert the new entry.
PutInCache(t) ==
    /\ pc[t] = "get_put"
    /\ cache_writer = NoTask /\ cache_readers = {}
    /\ ao_holder = NoTask
    /\ cache_writer' = t
    /\ IF NeedsEviction(cache, config.max_entries)
       THEN LET gone == EvictedKeys(access_order, config.max_entries)
            IN /\ access_order' = OrderAfterEvict(access_order, config.max_entries)
               /\ cache' = MapInsert(MapRemove(cache, gone), key[t],
                                     NewEntry(result[t].data, key[t]))
               /\ stats' = [stats EXCEPT !.evictions =
                               @ + Cardinality(gone \cap DOMAIN cache)]
       ELSE /\ cache' = MapInsert(cache, key[t], NewEntry(result[t].data, key[t]))
            /\ UNCHANGED <<access_order, stats>>
    /\ recency' = Accessed(recency, key[t], DOMAIN cache')
    /\ pc' = [pc EXCEPT ![t] = "get_put_order"]
    /\ UNCHANGED <<ssevars, config, now, total_collections, cache_readers, ao_holder,
                   call, key, result, expired_keys, bgvars, called_at, follows>>

\* An insert that leaves the access order as it is.
PutOrderUntracked(t) ==
    /\ pc[t] = "get_put_order"
    /\ ao_holder = NoTask
    /\ access_order' = access_order
    /\ stats' = [stats EXCEPT !.current_entries = Cardinality(DOMAIN cache)]
    /\ cache_writer' = NoTask
    /\ pc' = [pc EXCEPT ![t] = "done"]
    /\ UNCHANGED <<ssevars, config, cache, now, total_collections, cache_readers,
                   ao_holder, call, key, result, expired_keys, bgvars, histvars>>

\* The rest of put_in_cache: update the access order, record current_entries,
\* drop the write lock; get_metrics then returns the collected result.
PutOrder(t) ==
    /\ pc[t] = "get_put_order"
    /\ ao_holder = NoTask
    /\ access_order' = UpdateAccessOrder(access_order, key[t])
    /\ stats' = [stats EXCEPT !.current_entries = Cardinality(DOMAIN cache)]
    /\ cache_writer' = NoTask
    /\ pc' = [pc EXCEPT ![t] = "done"]
    /\ UNCHANGED <<ssevars, config, cache, now, total_collections, cache_readers,
                   ao_holder, call, key, result, expired_keys, bgvars, histvars>>

\* ---------------------------------------------------------------- clear

\* clear: both locks taken, cache.clear().
Clear(t) ==
    /\ Free(t)
    /\ cache_writer = NoTask /\ cache_readers = {}
    /\ ao_holder = NoTask
    /\ CallBegins(t, "clear", NoKey)
    /\ key' = [key EXCEPT ![t] = NoKey]
    /\ result' = [result EXCEPT ![t] = NoResult]
    /\ cache_writer' = t
    /\ ao_holder' = t
    /\ cache' = EmptyMap
    /\ recency' = <<>>
    /\ pc' = [pc EXCEPT ![t] = "clear_order"]
    /\ UNCHANGED <<ssevars, config, access_order, stats, now, total_collections,
                   cache_readers, expired_keys, bgvars>>

\* A clear that sets the statistics back to their initial values.
ClearOrderResetsStats(t) ==
    /\ pc[t] = "clear_order"
    /\ access_order' = <<>>
    /\ stats' = DefaultStats
    /\ cache_writer' = NoTask
    /\ ao_holder' = NoTask
    /\ result' = [result EXCEPT ![t] = UnitResult]
    /\ pc' = [pc EXCEPT ![t] = "done"]
    /\ UNCHANGED <<ssevars, config, cache, now, total_collections, cache_readers, call,
                   key, expired_keys, bgvars, histvars>>

\* A clear that leaves the access order as it is.
ClearOrderKept(t) ==
    /\ pc[t] = "clear_order"
    /\ stats' = [stats EXCEPT !.current_entries = 0]
    /\ cache_writer' = NoTask
    /\ ao_holder' = NoTask
    /\ result' = [result EXCEPT ![t] = UnitResult]
    /\ pc' = [pc EXCEPT ![t] = "done"]
    /\ UNCHANGED <<ssevars, config, cache, access_order, now, total_collections,
                   cache_readers, call, key, expired_keys, bgvars, histvars>>

\* A clear that returns with the access-order lock still taken.
ClearOrderKeepsLock(t) ==
    /\ pc[t] = "clear_order"
    /\ access_order' = <<>>
    /\ stats' = [stats EXCEPT !.current_entries = 0]
    /\ cache_writer' = NoTask
    /\ ao_holder' = t
    /\ result' = [result EXCEPT ![t] = UnitResult]
    /\ pc' = [pc EXCEPT ![t] = "done"]
    /\ UNCHANGED <<ssevars, config, cache, now, total_collections, cache_readers, call,
                   key, expired_keys, bgvars, histvars>>

\* clear: access_order.clear(), current_entries = 0, both locks dropped.
ClearOrder(t) ==
    /\ pc[t] = "clear_order"
    /\ access_order' = <<>>
    /\ stats' = [stats EXCEPT !.current_entries = 0]
    /\ cache_writer' = NoTask
    /\ ao_holder' = NoTask
    /\ result' = [result EXCEPT ![t] = UnitResult]
    /\ pc' = [pc EXCEPT ![t] = "done"]
    /\ UNCHANGED <<ssevars, config, cache, now, total_collections, cache_readers, call,
                   key, expired_keys, bgvars, histvars>>

\* ---------------------------------------------------------------- cleanup_expired

\* cleanup_expired: both locks taken, the expired keys collected.
CleanupExpired(t) ==
    /\ Free(t)
    /\ cache_writer = NoTask /\ cache_readers = {}
    /\ ao_holder = NoTask
    /\ CallBegins(t, "cleanup_expired", NoKey)
    /\ key' = [key EXCEPT ![t] = NoKey]
    /\ result' = [result EXCEPT ![t] = NoResult]
    /\ cache_writer' = t
    /\ ao_holder' = t
    /\ expired_keys' = [expired_keys EXCEPT ![t] =
                           {k \in DOMAIN cache : IsExpired(cache[k], config.ttl)}]
    /\ pc' = [pc EXCEPT ![t] = "cleanup_remove"]
    /\ UNCHANGED <<ssevars, config, cache, access_order, stats, now, total_collections,
                   cache_readers, bgvars, recency>>

\* cleanup_expired: the removal loop, the statistics, the locks dropped, the
\* count returned.
CleanupRemove(t) ==
    /\ pc[t] = "cleanup_remove"
    /\ LET gone == expired_keys[t]
           n == Cardinality(gone)
       IN /\ cache' = MapRemove(cache, gone)
          /\ access_order' = RemoveFirstOfEach(access_order, gone)
          /\ stats' = IF n > 0
                      THEN [stats EXCEPT
                              !.current_entries = Cardinality(DOMAIN cache \ gone),
                              !.evictions = @ + n]
                      ELSE stats
          /\ result' = [result EXCEPT ![t] = CountResult(n)]
    /\ recency' = Accessed(recency, NoKey, DOMAIN cache')
    /\ cache_writer' = NoTask
    /\ ao_holder' = NoTask
    /\ expired_keys' = [expired_keys EXCEPT ![t] = {}]
    /\ pc' = [pc EXCEPT ![t] = "done"]
    /\ UNCHANGED <<ssevars, config, now, total_collections, cache_readers, call, key,
                   bgvars, called_at, follows>>

\* ---------------------------------------------------------------- background refresh

\* The loop tasks that are alive: spawned and not yet broken out of their loop.
AliveLoops == {l \in LoopIds : loops[l] # "absent"}

\* The identity a newly spawned loop task gets: the first one not in use.
FreeLoopIds == {i \in 1..Len(LoopIdSeq) : loops[LoopIdSeq[i]] = "absent"}
NewLoopId == LoopIdSeq[CHOOSE i \in FreeLoopIds : \A j \in FreeLoopIds : i <= j]

\* start_background_refresh: a no-op when disabled or already active; otherwise
\* the flag is set and the loop task spawned.
StartBackgroundRefresh(t) ==
    /\ Free(t)
    /\ CallBegins(t, "start_background_refresh", NoKey)
    /\ key' = [key EXCEPT ![t] = NoKey]
    /\ IF ~config.enable_background_refresh \/ background_refresh_active
       THEN UNCHANGED <<background_refresh_active, loops>>
       ELSE /\ background_refresh_active' = TRUE
            /\ FreeLoopIds # {}
            /\ loops' = [loops EXCEPT ![NewLoopId] = "tick"]
    /\ result' = [result EXCEPT ![t] = UnitResult]
    /\ pc' = [pc EXCEPT ![t] = "done"]
    /\ UNCHANGED <<ssevars, config, cache, access_order, stats, now, total_collections,
                   lockvars, expired_keys, refreshes, recency>>

\* stop_background_refresh: the flag is cleared.
StopBackgroundRefresh(t) ==
    /\ Free(t)
    /\ CallBegins(t, "stop_background_refresh", NoKey)
    /\ key' = [key EXCEPT ![t] = NoKey]
    /\ background_refresh_active' = FALSE
    /\ result' = [result EXCEPT ![t] = UnitResult]
    /\ pc' = [pc EXCEPT ![t] = "done"]
    /\ UNCHANGED <<ssevars, config, cache, access_order, stats, now, total_collections,
                   lockvars, expired_keys, loops, refreshes, recency>>

\* A loop that does not look at background_refresh_active after its tick.
LoopTickIgnoresFlag(l) ==
    /\ \/ loops[l] = "tick"
       \/ loops[l] = "join" /\ refreshes[l] = <<>>
    /\ loops' = [loops EXCEPT ![l] = "scan"]
    /\ UNCHANGED <<ssevars, config, cache, access_order, stats, now, total_collections,
                   lockvars, fgvars, background_refresh_active, refreshes,
                   histvars>>

\* The loop's timer ticks (after the previous tick's refresh tasks are joined):
\* the loop breaks when the flag is cleared and goes on to scan otherwise.
LoopTick(l) ==
    /\ \/ loops[l] = "tick"
       \/ loops[l] = "join" /\ refreshes[l] = <<>>
    /\ loops' = [loops EXCEPT ![l] =
                    IF background_refresh_active THEN "scan" ELSE "absent"]
    /\ UNCHANGED <<ssevars, config, cache, access_order, stats, now, total_collections,
                   lockvars, fgvars, background_refresh_active, refreshes,
                   histvars>>

\* The scan under the read lock: among the entries to prefetch, as many as
\* max_concurrent_refreshes allows, in the map's iteration order (any order).
\* The refresh tasks are spawned lazily, each one as the loop comes to await
\* it, so they run one after the other in the order of the scan.
LoopScan(l) ==
    /\ loops[l] = "scan"
    /\ cache_writer = NoTask
    /\ LET candidates == {k \in DOMAIN cache :
                             ShouldPrefetch(cache[k], config.ttl,
                                            config.prefetch_threshold_pct)}
           n == Min(Cardinality(candidates), config.max_concurrent_refreshes)
       IN \E order \in [1..n -> candidates] :
             /\ \A i, j \in 1..n : order[i] = order[j] => i = j
             /\ refreshes' = [refreshes EXCEPT ![l] =
                   [i \in 1..n |-> [key |-> order[i], stage |-> "collect", data |-> 0]]]
             /\ loops' = [loops EXCEPT ![l] = IF n = 0 THEN "tick" ELSE "join"]
    /\ UNCHANGED <<ssevars, config, cache, access_order, stats, now, total_collections,
                   lockvars, fgvars, background_refresh_active, histvars>>

\* A refresh task that drops its entry when the Collector fails.
RefreshCollectDropsOnError(l) ==
    /\ refreshes[l] # <<>>
    /\ Head(refreshes[l]).stage = "collect"
    /\ total_collections' = total_collections + 1
    /\ \E o \in CollectorOutcomes(total_collections + 1) :
          IF o.tag = "Error"
          THEN /\ stats' = [stats EXCEPT !.failed_refreshes = @ + 1]
               /\ cache' = MapRemove(cache, {Head(refreshes[l]).key})
               /\ refreshes' = [refreshes EXCEPT ![l] = Tail(@)]
          ELSE /\ stats' = stats
               /\ cache' = cache
               /\ refreshes' = [refreshes EXCEPT ![l] =
                     <<[Head(@) EXCEPT !.stage = "apply", !.data = o.data]>>
                        \o Tail(@)]
    /\ UNCHANGED <<ssevars, config, access_order, now, lockvars, fgvars,
                   background_refresh_active, loops, histvars>>

\* The running refresh task's collect_fresh_metrics returns.  On a hard Error
\* the task counts a failed refresh and ends.
RefreshCollect(l) ==
    /\ refreshes[l] # <<>>
    /\ Head(refreshes[l]).stage = "collect"
    /\ total_collections' = total_collections + 1
    /\ \E o \in CollectorOutcomes(total_collections + 1) :
          IF o.tag = "Error"
          THEN /\ stats' = [stats EXCEPT !.failed_refreshes = @ + 1]
               /\ refreshes' = [refreshes EXCEPT ![l] = Tail(@)]
          ELSE /\ stats' = stats
               /\ refreshes' = [refreshes EXCEPT ![l] =
                     <<[Head(@) EXCEPT !.stage = "apply", !.data = o.data]>>
                        \o Tail(@)]
    /\ UNCHANGED <<ssevars, config, cache, access_order, now, lockvars, fgvars,
                   background_refresh_active, loops, histvars>>

\* A refresh task that writes the new data and leaves created_at as it was.
RefreshApplyKeepsCreatedAt(l) ==
    /\ refreshes[l] # <<>>
    /\ Head(refreshes[l]).stage = "apply"
    /\ cache_writer = NoTask /\ cache_readers = {}
    /\ LET r == Head(refreshes[l])
       IN IF r.key \in DOMAIN cache
          THEN /\ cache' = [cache EXCEPT ![r.key] = [@ EXCEPT !.data = r.data]]
               /\ stats' = [stats EXCEPT !.background_refreshes = @ + 1]
          ELSE UNCHANGED <<cache, stats>>
    /\ refreshes' = [refreshes EXCEPT ![l] = Tail(@)]
    /\ UNCHANGED <<ssevars, config, access_order, now, total_collections, lockvars,
                   fgvars, background_refresh_active, loops, histvars>>

\* A refresh task that counts its write as an access of the entry.
RefreshApplyTouches(l) ==
    /\ refreshes[l] # <<>>
    /\ Head(refreshes[l]).stage = "apply"
    /\ cache_writer = NoTask /\ cache_readers = {}
    /\ LET r == Head(refreshes[l])
       IN IF r.key \in DOMAIN cache
          THEN /\ cache' = [cache EXCEPT ![r.key] =
                               [@ EXCEPT !.data = r.data, !.created_at = now,
                                         !.accessed_at = now,
                                         !.access_count = @ + 1]]
               /\ stats' = [stats EXCEPT !.background_refreshes = @ + 1]
          ELSE UNCHANGED <<cache, stats>>
    /\ refreshes' = [refreshes EXCEPT ![l] = Tail(@)]
    /\ UNCHANGED <<ssevars, config, access_order, now, total_collections, lockvars,
                   fgvars, background_refresh_active, loops, histvars>>

\* A refresh task that stores its result under its key when the entry is gone.
RefreshApplyInserts(l) ==
    /\ refreshes[l] # <<>>
    /\ Head(refreshes[l]).stage = "apply"
    /\ cache_writer = NoTask /\ cache_readers = {}
    /\ LET r == Head(refreshes[l])
       IN /\ cache' = IF r.key \in DOMAIN cache
                       THEN [cache EXCEPT ![r.key] =
                               [@ EXCEPT !.data = r.data, !.created_at = now]]
                       ELSE MapInsert(cache, r.key, NewEntry(r.data, r.key))
          /\ stats' = [stats EXCEPT !.background_refreshes = @ + 1]
    /\ refreshes' = [refreshes EXCEPT ![l] = Tail(@)]
    /\ UNCHANGED <<ssevars, config, access_order, now, total_collections, lockvars,
                   fgvars, background_refresh_active, loops, histvars>>

\* The running refresh task applies its result under the write lock: the
\* entry, when it is still there, gets the new data and a new creation instant.
RefreshApply(l) ==
    /\ refreshes[l] # <<>>
    /\ Head(refreshes[l]).stage = "apply"
    /\ cache_writer = NoTask /\ cache_readers = {}
    /\ LET r == Head(refreshes[l])
       IN IF r.key \in DOMAIN cache
          THEN /\ cache' = [cache EXCEPT ![r.key] =
                               [@ EXCEPT !.data = r.data, !.created_at = now]]
               /\ stats' = [stats EXCEPT !.background_refreshes = @ + 1]
          ELSE UNCHANGED <<cache, stats>>
    /\ refreshes' = [refreshes EXCEPT ![l] = Tail(@)]
    /\ UNCHANGED <<ssevars, config, access_order, now, total_collections, lockvars,
                   fgvars, background_refresh_active, loops, histvars>>

\* ---------------------------------------------------------------- SSE time streams

\* broadcast::channel rounds the capacity it is given up to a power of two.
RECURSIVE PowerOfTwoFrom(_, _)
PowerOfTwoFrom(p, n) == IF p >= n THEN p ELSE PowerOfTwoFrom(2 * p, n)
NextPowerOfTwo(n) == PowerOfTwoFrom(1, n)
\* The number of values the channel retains.
BufferSize == NextPowerOfTwo(ChannelCapacity)

\* TimeEvent::new at the broadcaster's n-th tick: the instant and its UK format.
FormatUkTime(timestamp) == <<"dd/mm/yyyy hh:mm:ss", timestamp>>
TimeEventNew(n) == [timestamp |-> n, formatted_time |-> FormatUkTime(n)]

\* The SSE event of a received value: the JSON object of the TimeEvent as data.
TimeUpdateEvent(c, time_event) ==
    [event |-> "time-update", id |-> c,
     data |-> [timestamp |-> time_event.timestamp,
               formatted_time |-> time_event.formatted_time]]

\* The SSE event of a lag report.
ConnectionLaggedEvent(c, missed) ==
    [event |-> "connection-lagged", id |-> c, data |-> [missed_events |-> missed]]

\* Sender::receiver_count: the receivers of the streams that exist.
ReceiverCount == Cardinality({c \in Conns : conn[c] = "open"})

\* The senders of the channel: the one of the SseService (its clones are
\* dropped with it) and the clone each broadcaster task holds.
SenderCount == (IF service_alive THEN 1 ELSE 0) + broadcasters

\* start_time_broadcaster: spawn a broadcaster task, which holds a clone of
\* the sender and never returns.
StartTimeBroadcaster ==
    /\ service_alive
    /\ broadcasters' = broadcasters + 1
    /\ UNCHANGED <<service_alive, ticks, channel, tail_pos, conn, rx_next,
                   sse_log, delivered>>
    /\ UNCHANGED <<cachevars, msvars, errvars, collectvars>>

\* The application drops the SseService and every clone of it.
DropService ==
    /\ service_alive
    /\ service_alive' = FALSE
    /\ UNCHANGED <<broadcasters, ticks, channel, tail_pos, conn, rx_next,
                   sse_log, delivered>>
    /\ UNCHANGED <<cachevars, msvars, errvars, collectvars>>

\* A broadcaster task that returns when send reports that there is no receiver.
BroadcastStopsWithoutReceivers ==
    /\ broadcasters > 0
    /\ ticks' = ticks + 1
    /\ IF ReceiverCount = 0
       THEN /\ broadcasters' = broadcasters - 1
            /\ UNCHANGED <<channel, tail_pos, sse_log>>
       ELSE /\ channel' = Append(IF Len(channel) = BufferSize
                                 THEN Tail(channel) ELSE channel,
                                 TimeEventNew(ticks + 1))
            /\ tail_pos' = tail_pos + 1
            /\ sse_log' = Append(sse_log, TimeEventNew(ticks + 1))
            /\ broadcasters' = broadcasters
    /\ UNCHANGED <<service_alive, conn, rx_next, delivered>>
    /\ UNCHANGED <<cachevars, msvars, errvars, collectvars>>

\* A send that waits until no receiver would lose a value by it.
BroadcastWaitsForReceivers ==
    /\ broadcasters > 0
    /\ \A c \in Conns : conn[c] = "open" => tail_pos - rx_next[c] < BufferSize
    /\ ticks' = ticks + 1
    /\ IF ReceiverCount = 0
       THEN UNCHANGED <<channel, tail_pos, sse_log>>
       ELSE /\ channel' = Append(IF Len(channel) = BufferSize
                                 THEN Tail(channel) ELSE channel,
                                 TimeEventNew(ticks + 1))
            /\ tail_pos' = tail_pos + 1
            /\ sse_log' = Append(sse_log, TimeEventNew(ticks + 1))
    /\ UNCHANGED <<service_alive, broadcasters, conn, rx_next, delivered>>
    /\ UNCHANGED <<cachevars, msvars, errvars, collectvars>>

\* A tick of a broadcaster task: a new TimeEvent is sent.  With no receiver
\* send returns an error and stores nothing; otherwise the value is stored at
\* the tail, in the place of the oldest one when the buffer is full.
Broadcast ==
    /\ broadcasters > 0
    /\ ticks' = ticks + 1
    /\ IF ReceiverCount = 0
       THEN UNCHANGED <<channel, tail_pos, sse_log>>
       ELSE /\ channel' = Append(IF Len(channel) = BufferSize
                                 THEN Tail(channel) ELSE channel,
                                 TimeEventNew(ticks + 1))
            /\ tail_pos' = tail_pos + 1
            /\ sse_log' = Append(sse_log, TimeEventNew(ticks + 1))
    /\ UNCHANGED <<service_alive, broadcasters, conn, rx_next, delivered>>
    /\ UNCHANGED <<cachevars, msvars, errvars, collectvars>>

\* A subscription whose receiver starts at the oldest value retained.
CreateTimeStreamFromOldest(c) ==
    /\ service_alive
    /\ conn[c] = "none"
    /\ conn' = [conn EXCEPT ![c] = "open"]
    /\ rx_next' = [rx_next EXCEPT ![c] = tail_pos - Len(channel)]
    /\ delivered' = [delivered EXCEPT ![c] = <<>>]
    /\ UNCHANGED <<service_alive, broadcasters, ticks, channel, tail_pos, sse_log>>
    /\ UNCHANGED <<cachevars, msvars, errvars, collectvars>>

\* create_time_stream: subscribe; the receiver starts at the tail.
CreateTimeStream(c) ==
    /\ service_alive
    /\ conn[c] = "none"
    /\ conn' = [conn EXCEPT ![c] = "open"]
    /\ rx_next' = [rx_next EXCEPT ![c] = tail_pos]
    /\ delivered' = [delivered EXCEPT ![c] = <<>>]
    /\ UNCHANGED <<service_alive, broadcasters, ticks, channel, tail_pos, sse_log>>
    /\ UNCHANGED <<cachevars, msvars, errvars, collectvars>>

\* The client of connection c goes away: the response and with it the stream
\* and its receiver are dropped.
Disconnect(c) ==
    /\ conn[c] = "open"
    /\ conn' = [conn EXCEPT ![c] = "dropped"]
    /\ UNCHANGED <<service_alive, broadcasters, ticks, channel, tail_pos,
                   rx_next, sse_log, delivered>>
    /\ UNCHANGED <<cachevars, msvars, errvars, collectvars>>

\* A receiver that counts a lag against the capacity the channel was asked for
\* and not against the number of values the channel retains.
TimeStreamNextUnrounded(c) ==
    /\ conn[c] = "open"
    /\ IF rx_next[c] < tail_pos
       THEN /\ IF tail_pos - rx_next[c] > ChannelCapacity
               THEN LET next == tail_pos - ChannelCapacity
                        missed == next - rx_next[c]
                    IN /\ rx_next' = [rx_next EXCEPT ![c] = next]
                       /\ delivered' = [delivered EXCEPT ![c] =
                             Append(@, ConnectionLaggedEvent(c, missed))]
               ELSE LET time_event ==
                           channel[Len(channel) - (tail_pos - rx_next[c]) + 1]
                    IN /\ rx_next' = [rx_next EXCEPT ![c] = @ + 1]
                       /\ delivered' = [delivered EXCEPT ![c] =
                             Append(@, TimeUpdateEvent(c, time_event))]
            /\ conn' = conn
       ELSE /\ SenderCount = 0
            /\ conn' = [conn EXCEPT ![c] = "ended"]
            /\ UNCHANGED <<rx_next, delivered>>
    /\ UNCHANGED <<service_alive, broadcasters, ticks, channel, tail_pos, sse_log>>
    /\ UNCHANGED <<cachevars, msvars, errvars, collectvars>>

\* A stream that ends when its receiver reports a lag.
TimeStreamNextEndsOnLag(c) ==
    /\ conn[c] = "open"
    /\ IF rx_next[c] < tail_pos
       THEN IF tail_pos - rx_next[c] > BufferSize
            THEN /\ conn' = [conn EXCEPT ![c] = "ended"]
                 /\ UNCHANGED <<rx_next, delivered>>
            ELSE LET time_event ==
                        channel[Len(channel) - (tail_pos - rx_next[c]) + 1]
                 IN /\ rx_next' = [rx_next EXCEPT ![c] = @ + 1]
                    /\ delivered' = [delivered EXCEPT ![c] =
                          Append(@, TimeUpdateEvent(c, time_event))]
                    /\ conn' = conn
       ELSE /\ SenderCount = 0
            /\ conn' = [conn EXCEPT ![c] = "ended"]
            /\ UNCHANGED <<rx_next, delivered>>
    /\ UNCHANGED <<service_alive, broadcasters, ticks, channel, tail_pos, sse_log>>
    /\ UNCHANGED <<cachevars, msvars, errvars, collectvars>>

\* One poll of the stream of connection c that is ready (the unfold closure):
\* rx.recv() returns a value, which is serialized into a time-update event, or
\* Lagged(missed) when the value at the receiver's position was overwritten,
\* the receiver going on at the oldest retained value; with every value
\* received and no sender left it returns Closed and the stream ends, its
\* receiver dropped.  With nothing to receive and a sender left recv waits.
\* serde_json::to_string cannot fail on a TimeEvent (a timestamp and a string).
TimeStreamNext(c) ==
    /\ conn[c] = "open"
    /\ IF rx_next[c] < tail_pos
       THEN /\ IF tail_pos - rx_next[c] > BufferSize
               THEN LET next == tail_pos - BufferSize
                        missed == next - rx_next[c]
                    IN /\ rx_next' = [rx_next EXCEPT ![c] = next]
                       /\ delivered' = [delivered EXCEPT ![c] =
                             Append(@, ConnectionLaggedEvent(c, missed))]
               ELSE LET time_event ==
                           channel[Len(channel) - (tail_pos - rx_next[c]) + 1]
                    IN /\ rx_next' = [rx_next EXCEPT ![c] = @ + 1]
                       /\ delivered' = [delivered EXCEPT ![c] =
                             Append(@, TimeUpdateEvent(c, time_event))]
            /\ conn' = conn
       ELSE /\ SenderCount = 0
            /\ conn' = [conn EXCEPT ![c] = "ended"]
            /\ UNCHANGED <<rx_next, delivered>>
    /\ UNCHANGED <<service_alive, broadcasters, ticks, channel, tail_pos, sse_log>>
    /\ UNCHANGED <<cachevars, msvars, errvars, collectvars>>

\* ---------------------------------------------------------------- get_stats

\* get_stats: a copy of the statistics, in which current_entries is the size of
\* the map when try_read gets the read lock, that is when no writer holds the
\* lock, and the stored count otherwise.  It is not async and changes nothing.
GetStats ==
    IF cache_writer = NoTask
    THEN [stats EXCEPT !.current_entries = Cardinality(DOMAIN cache)]
    ELSE stats

\* ---------------------------------------------------------------- metrics streams

\* ServerInfo::validate, by the two checks the ServerInfo values here differ
\* in: the hostname is not empty and the environment is one of three names.
ServerInfoValidate(info) ==
    /\ info.hostname # ""
    /\ info.environment \in {"development", "staging", "production"}

\* ServerMetrics::validate on a snapshot of the Collector.
ServerMetricsValidate(server_metrics) == server_metrics \notin invalid_metrics

\* The all-zero ServerMetrics of create_minimal_status: it is no snapshot of
\* the Collector, and ServerMetrics::validate accepts it (0 + 0 <= 0, 0 %,
\* one core, load averages 0).
MinimalMetrics == 0

\* The interval create_minimal_status passes to StatusData::new.
MinimalStatusInterval == 5

StatusOk(status_data) == [ok |-> TRUE, value |-> status_data]
StatusErr == [ok |-> FALSE]

\* StatusData::new: build the value, then validate the interval, the metrics
\* and the server info.
StatusDataNew(server_metrics, interval, info) ==
    IF interval < 1 THEN StatusErr
    ELSE IF ~ServerMetricsValidate(server_metrics) THEN StatusErr
    ELSE IF ~ServerInfoValidate(info) THEN StatusErr
    ELSE StatusOk([server_metrics |-> server_metrics,
                   collection_interval_seconds |-> interval,
                   server_info |-> info])

CreateMinimalStatus ==
    StatusDataNew(MinimalMetrics, MinimalStatusInterval, server_info)

\* The task in which the poll_next of connection c runs its get_metrics.
StreamTask(c) == IF c = "c1" THEN "t1" ELSE "t2"

ConnectionInfo(c) == [client_id |-> c, events_sent |-> events_sent[c]]

\* The SSE event poll_next builds: its name, its id (sequence.to_string()) and
\* its data, the MetricsEvent.
MetricsEvent(c, event_type, status_data) ==
    [event |-> event_type,
     id |-> ToString(sequence[c]),
     data |-> [event_type |-> event_type,
               data |-> status_data,
               sequence |-> sequence[c],
               connection_info |-> ConnectionInfo(c)]]

\* The event no poll_next returns: unwrap has panicked.
Panic == [event |-> "panic"]

\* What poll_next makes of the MetricsResponse: the status of the data when it
\* is Ok or PartialData and passes StatusData::new, and the minimal status
\* otherwise.  Panic: neither create_minimal_status nor the second
\* StatusData::new on the same values succeeds, and unwrap panics.
EventOf(c, metrics_result) ==
    LET status == IF metrics_result.tag \in SuccessTags
                  THEN StatusDataNew(metrics_result.data,
                                     collection_interval_seconds, server_info)
                  ELSE StatusErr
        again == StatusDataNew(MinimalMetrics, MinimalStatusInterval, server_info)
    IN IF status.ok THEN MetricsEvent(c, "status-update", status.value)
       ELSE IF CreateMinimalStatus.ok
            THEN MetricsEvent(c, "error", CreateMinimalStatus.value)
       ELSE IF again.ok THEN MetricsEvent(c, "error", again.value)
       ELSE Panic

\* server_status_stream: a new connection gets its MetricsStream.
ServerStatusStream(c) ==
    /\ stream[c] = "none"
    /\ pc[StreamTask(c)] = "idle"
    /\ stream' = [stream EXCEPT ![c] = "open"]
    /\ sequence' = [sequence EXCEPT ![c] = 0]
    /\ events_sent' = [events_sent EXCEPT ![c] = 0]
    /\ emitted' = [emitted EXCEPT ![c] = <<>>]
    /\ UNCHANGED <<cachevars, timevars, statusvars, errvars, collectvars>>

\* A poll_next that asks the cache with a key of its own connection, as the
\* unused collect_metrics does ("sse_<client_id>").
MetricsStreamTickOwnKey(c) ==
    /\ stream[c] = "open"
    /\ pc[StreamTask(c)] = "idle"
    /\ GetMetrics(StreamTask(c), c)

\* poll_next when the interval timer has ticked, up to the first await of
\* get_metrics(None).
MetricsStreamTick(c) ==
    /\ stream[c] = "open"
    /\ pc[StreamTask(c)] = "idle"
    /\ GetMetrics(StreamTask(c), NoKey)

\* A poll_next that counts the event in sequence only.
MetricsStreamEmitUncounted(c) ==
    LET t == StreamTask(c)
        event == EventOf(c, result[t])
    IN /\ stream[c] = "open"
       /\ pc[t] = "done" /\ call[t] = "get_metrics"
       /\ pc' = [pc EXCEPT ![t] = "idle"]
       /\ IF event = Panic
          THEN /\ stream' = [stream EXCEPT ![c] = "panicked"]
               /\ UNCHANGED <<sequence, events_sent, emitted>>
          ELSE /\ emitted' = [emitted EXCEPT ![c] = Append(@, event)]
               /\ sequence' = [sequence EXCEPT ![c] = @ + 1]
               /\ events_sent' = events_sent
               /\ stream' = stream
       /\ UNCHANGED <<config, cache, access_order, stats, now, total_collections,
                      lockvars, call, key, result, expired_keys, bgvars, histvars>>
       /\ UNCHANGED <<timevars, statusvars, errvars, collectvars>>

\* The rest of poll_next, once get_metrics has returned: build the event of
\* the response, count it (sequence += 1, increment_events) and yield it.
MetricsStreamEmit(c) ==
    LET t == StreamTask(c)
        event == EventOf(c, result[t])
    IN /\ stream[c] = "open"
       /\ pc[t] = "done" /\ call[t] = "get_metrics"
       /\ pc' = [pc EXCEPT ![t] = "idle"]
       /\ IF event = Panic
          THEN /\ stream' = [stream EXCEPT ![c] = "panicked"]
               /\ UNCHANGED <<sequence, events_sent, emitted>>
          ELSE /\ emitted' = [emitted EXCEPT ![c] = Append(@, event)]
               /\ sequence' = [sequence EXCEPT ![c] = @ + 1]
               /\ events_sent' = [events_sent EXCEPT ![c] = @ + 1]
               /\ stream' = stream
       /\ UNCHANGED <<config, cache, access_order, stats, now, total_collections,
                      lockvars, call, key, result, expired_keys, bgvars, histvars>>
       /\ UNCHANGED <<timevars, statusvars, errvars, collectvars>>

\* The client goes away between two polls and the MetricsStream is dropped.
MetricsStreamDrop(c) ==
    /\ stream[c] = "open"
    /\ pc[StreamTask(c)] = "idle"
    /\ stream' = [stream EXCEPT ![c] = "dropped"]
    /\ UNCHANGED <<sequence, events_sent, emitted>>
    /\ UNCHANGED <<cachevars, timevars, statusvars, errvars, collectvars>>

\* ---------------------------------------------------------------- collection errors

\* The kinds of MetricsCollectionError other than MultipleErrors.  The fields
\* of a kind (reason, timeout_ms, ...) are read by none of the methods below.
LeafKinds ==
    {"SystemUnavailable", "PermissionDenied", "ParseError", "Timeout",
     "OutOfMemory", "NetworkError", "CpuError", "MemoryError",
     "ServiceNotInitialized", "Internal"}

LeafError(kind) == [kind |-> kind]

\* MetricsCollectionError::multiple
Multiple(errs) == [kind |-> "MultipleErrors", count |-> Len(errs), errors |-> errs]

\* The elements of a Vec.
Elements(errs) == {errs[i] : i \in 1..Len(errs)}

\* The number of error values in e, e included.
RECURSIVE Nodes(_)
RECURSIVE NodesOfAll(_)
Nodes(e) == IF e.kind = "MultipleErrors" THEN 1 + NodesOfAll(e.errors) ELSE 1
NodesOfAll(errs) == IF errs = <<>> THEN 0 ELSE Nodes(Head(errs)) + NodesOfAll(Tail(errs))

\* Option<u64>
NoneValue == [some |-> FALSE]
Some(n) == [some |-> TRUE, value |-> n]

\* The kinds is_recoverable answers true for, with ParseError among them.
RecoverableKindsAndParseError ==
    {"Timeout", "OutOfMemory", "NetworkError", "Internal", "ParseError"}

\* The kinds is_recoverable answers true for.
RecoverableKinds == {"Timeout", "OutOfMemory", "NetworkError", "Internal"}

RECURSIVE IsRecoverable(_)
IsRecoverable(e) ==
    IF e.kind = "MultipleErrors"
    THEN \E x \in Elements(e.errors) : IsRecoverable(x)
    ELSE e.kind \in RecoverableKinds

\* #[derive(PartialOrd, Ord)] on ErrorSeverity: the order of declaration.
SeverityRank(s) ==
    CASE s = "Warning" -> 0
      [] s = "Error" -> 1
      [] s = "Critical" -> 2

\* The least of a non-empty set of severities.
MinSeverity(S) == CHOOSE s \in S : \A x \in S : SeverityRank(s) <= SeverityRank(x)

\* Iterator::max over a non-empty set of severities.
MaxSeverity(S) == CHOOSE s \in S : \A x \in S : SeverityRank(x) <= SeverityRank(s)

RECURSIVE Severity(_)
Severity(e) ==
    CASE e.kind \in {"Timeout", "NetworkError", "Internal"} -> "Warning"
      [] e.kind \in {"SystemUnavailable", "PermissionDenied", "ParseError",
                     "CpuError", "MemoryError"} -> "Error"
      [] e.kind \in {"OutOfMemory", "ServiceNotInitialized"} -> "Critical"
      [] e.kind = "MultipleErrors" ->
            LET sevs == {Severity(x) : x \in Elements(e.errors)}
            IN IF sevs = {} THEN "Error" ELSE MaxSeverity(sevs)

\* The greatest of a non-empty set of delays.
MaxDelay(S) == CHOOSE n \in S : \A x \in S : x <= n

\* Iterator::min over a non-empty set of delays.
MinDelay(S) == CHOOSE n \in S : \A x \in S : n <= x

RECURSIVE RetryDelayMs(_)
RetryDelayMs(e) ==
    CASE e.kind \in {"Timeout", "Internal"} -> Some(1000)
      [] e.kind = "OutOfMemory" -> Some(5000)
      [] e.kind = "NetworkError" -> Some(2000)
      [] e.kind \in {"SystemUnavailable", "PermissionDenied", "ParseError",
                     "CpuError", "MemoryError", "ServiceNotInitialized"} -> NoneValue
      [] e.kind = "MultipleErrors" ->
            LET delays == {RetryDelayMs(x).value :
                             x \in {y \in Elements(e.errors) : RetryDelayMs(y).some}}
            IN IF delays = {} THEN NoneValue ELSE Some(MinDelay(delays))

\* A mapping that answers a Warning with 503.
StatusCodeWarningUnavailable(severity) ==
    CASE severity = "Warning" -> 503
      [] severity = "Error" -> 503
      [] severity = "Critical" -> 500

\* A mapping that answers a Critical error with 503.
StatusCodeUnavailable(severity) ==
    CASE severity = "Warning" -> 200
      [] severity = "Error" -> 503
      [] severity = "Critical" -> 503

\* into_response, MetricsCollection arm: the status code of a severity.
StatusCode(severity) ==
    CASE severity = "Warning" -> 200
      [] severity = "Error" -> 503
      [] severity = "Critical" -> 500

\* into_response, MetricsCollection arm: the error_type of a severity.
ErrorType(severity) ==
    CASE severity = "Warning" -> "metrics_warning"
      [] severity = "Error" -> "metrics_error"
      [] severity = "Critical" -> "metrics_critical"

\* ServerStatusError::MetricsCollection(e).into_response(): the status code
\* and the ErrorResponse with its details.  `error` stands for the message,
\* which is the Display of e.
IntoResponse(e) ==
    [status |-> StatusCode(Severity(e)),
     body |-> [error |-> e,
               error_type |-> ErrorType(Severity(e)),
               details |-> [recoverable |-> IsRecoverable(e),
                            severity |-> Severity(e),
                            retry_delay_ms |-> RetryDelayMs(e)]]]

\* A Vec of errors grows by an error of one kind.
PushError(kind) ==
    /\ NodesOfAll(errors) < ErrMaxNodes
    /\ errors' = Append(errors, LeafError(kind))
    /\ response' = NoResponse
    /\ UNCHANGED <<cachevars, timevars, msvars, collectvars>>

\* MetricsCollectionError::multiple on the last k errors of the Vec.
CombineErrors(k) ==
    /\ NodesOfAll(errors) < ErrMaxNodes
    /\ k <= Len(errors)
    /\ errors' = Append(SubSeq(errors, 1, Len(errors) - k),
                        Multiple(SubSeq(errors, Len(errors) - k + 1, Len(errors))))
    /\ response' = NoResponse
    /\ UNCHANGED <<cachevars, timevars, msvars, collectvars>>

\* get_server_status: the metrics result is Error(e), and the handler's
\* Err(ServerStatusError::MetricsCollection(e)) is turned into the response.
GetServerStatusFails ==
    /\ Len(errors) = 1
    /\ response' = IntoResponse(errors[1])
    /\ errors' = <<>>
    /\ UNCHANGED <<cachevars, timevars, msvars, collectvars>>

\* ---------------------------------------------------------------- the Collector

\* MemoryMetrics::default() and CpuMetrics::default()
MemoryMetricsDefault == [total_bytes |-> 0]
CpuMetricsDefault == [usage_percentage |-> 0, core_count |-> 1]

OkOf(value) == [ok |-> TRUE, value |-> value]
ErrOf(error) == [ok |-> FALSE, error |-> error]

\* collect_memory_metrics
CollectMemoryMetrics(sys) ==
    IF sys.total_memory = 0
    THEN ErrOf(LeafError("MemoryError"))
    ELSE OkOf([total_bytes |-> sys.total_memory])

\* collect_cpu_metrics
CollectCpuMetrics(sys) ==
    IF sys.cpus = 0
    THEN ErrOf(LeafError("CpuError"))
    ELSE OkOf([usage_percentage |-> sys.cpu_usage, core_count |-> sys.cpus])

\* collect_network_metrics: it returns Ok whatever it could read.
CollectNetworkMetrics(sys) == OkOf("collected")

\* perform_collection: has_meaningful_data
HasMeaningfulData(memory_metrics, cpu_metrics) ==
    memory_metrics.total_bytes > 0 \/ cpu_metrics.usage_percentage > 0

\* perform_collection, after refresh_all: the four parts in their order, each
\* failure pushed on errors and replaced by a default, then the response.
PerformCollectionOn(sys, collect_network) ==
    LET memory == CollectMemoryMetrics(sys)
        cpu == CollectCpuMetrics(sys)
        network == IF collect_network
                   THEN CollectNetworkMetrics(sys) ELSE OkOf("default")
        errs == (IF memory.ok THEN <<>> ELSE <<memory.error>>)
                \o (IF cpu.ok THEN <<>> ELSE <<cpu.error>>)
                \o (IF network.ok THEN <<>> ELSE <<network.error>>)
                \o (IF sys.uptime > 0 THEN <<>>
                    ELSE <<LeafError("SystemUnavailable")>>)
        memory_metrics == IF memory.ok THEN memory.value ELSE MemoryMetricsDefault
        cpu_metrics == IF cpu.ok THEN cpu.value ELSE CpuMetricsDefault
        server_metrics == [memory_usage |-> memory_metrics,
                           cpu_usage |-> cpu_metrics,
                           uptime |-> sys.uptime,
                           network_metrics |-> IF network.ok THEN network.value
                                               ELSE "default"]
    IN IF errs = <<>> THEN MetricsOk(server_metrics)
       ELSE IF Len(errs) = 1 THEN MetricsPartialData(server_metrics, errs)
       ELSE IF ~HasMeaningfulData(memory_metrics, cpu_metrics)
            THEN [tag |-> "Error", data |-> 0, errors |-> <<Multiple(errs)>>]
       ELSE MetricsPartialData(server_metrics, errs)

\* collect_fresh_metrics on a system that reads sys: total_collections is
\* counted, refresh_all reads the system anew, and perform_collection builds
\* the response from the reading.
CollectFreshMetricsOn(sys) ==
    /\ total_collections' = total_collections + 1
    /\ system' = sys
    /\ collection' = PerformCollectionOn(sys, collect_network_metrics)
    /\ UNCHANGED collect_network_metrics

CollectFreshMetrics ==
    /\ total_collections < CollectMaxCalls
    /\ \E sys \in Readings : CollectFreshMetricsOn(sys)
    /\ UNCHANGED <<config, cache, access_order, stats, now, lockvars, fgvars,
                   bgvars, histvars>>
    /\ UNCHANGED <<timevars, msvars, errvars>>

\* ---------------------------------------------------------------- get_server_status

\* The elapsed time, in ms, below which get_server_status takes the data as
\* cached.
CachedBelowMs == 50

\* A heuristic that goes by the elapsed time alone.
CachedByTime(force_refresh, collection_time) == collection_time < CachedBelowMs

\* get_server_status: `cached`
Cached(force_refresh, collection_time) ==
    ~force_refresh /\ collection_time < CachedBelowMs

\* ServerStatusError::Internal(..).into_response()
InternalResponse == [status |-> 500, body |-> [error_type |-> "internal_error"]]

\* get_server_status from the metrics result on: the warnings of a partial
\* result, StatusData::new, and the response with its metadata; a hard Error
\* and a StatusData that fails validation are turned into error responses.
\* A warning stands for its message, which names the error.
ServerStatusResponse(metrics_result, force_refresh, collection_time) ==
    IF metrics_result.tag = "Error" THEN IntoResponse(metrics_result.errors[1])
    ELSE LET status_data == StatusDataNew(metrics_result.data,
                                          collection_interval_seconds,
                                          server_info)
         IN IF ~status_data.ok THEN InternalResponse
            ELSE [status |-> 200,
                  data |-> status_data.value,
                  metadata |-> [cached |-> Cached(force_refresh, collection_time),
                                collection_time_ms |-> collection_time,
                                warnings |-> metrics_result.errors]]

\* get_server_status with force_refresh = true, on a system that reads sys,
\* the collection taking collection_time ms: collect_fresh_metrics and the
\* response.
GetServerStatusForced(sys, collection_time) ==
    /\ CollectFreshMetricsOn(sys)
    /\ response' = ServerStatusResponse(collection', TRUE, collection_time)
    /\ UNCHANGED <<config, cache, access_order, stats, now, lockvars, fgvars,
                   bgvars, histvars>>
    /\ UNCHANGED <<timevars, msvars, errors>>

\* ---------------------------------------------------------------- specifications

\* What a caller may pass as cache_key: None or Some(key).
KeyArgs == Keys \cup {NoKey}

\* The steps of a get_metrics call after its entry and before its return,
\* the Collector call apart.
GetSteps(t) ==
    \/ GetFromCache(t)
    \/ GetHitOrder(t)
    \/ GetHitStats(t)
    \/ GetMissStats(t)
    \/ PutInCache(t)
    \/ PutOrder(t)

MaintenanceSteps(t) ==
    \/ Clear(t)
    \/ ClearOrder(t)
    \/ CleanupExpired(t)
    \/ CleanupRemove(t)

\* Spec: one caller of get_metrics, clear and cleanup_expired, and the clock.
\* max_entries is a usize that with_config takes as it is given: 0 included.
Init == InitWith({MetricsCacheConfig(m, TRUE) : m \in 0..MaxEntriesBound})

Next ==
    \/ now < MaxTime /\ Tick
    \/ stats.total_requests < MaxRequests
       /\ \E arg \in KeyArgs : GetMetrics("t1", arg)
    \/ GetCollect("t1")
    \/ GetSteps("t1")
    \/ MaintenanceSteps("t1")

Spec == Init /\ [][Next]_vars

\* SpecBg: one caller, the clock, and the background refresh loop with its
\* refresh tasks.  The caller passes None or one key, and after a stop it
\* starts the refresh again only once the stopped loop has exited (SpecLoops
\* is without that restriction).
BgKeyArgs == {NoKey, "a"}

InitBg == InitWith({MetricsCacheConfig(MaxEntriesBound, e) : e \in BOOLEAN})

NextBg ==
    \/ now < MaxTime /\ Tick
    \/ stats.total_requests < BgMaxRequests
       /\ \E arg \in BgKeyArgs : GetMetrics("t1", arg)
    \/ total_collections < BgMaxCollects /\ GetCollect("t1")
    \/ GetSteps("t1")
    \/ MaintenanceSteps("t1")
    \/ (background_refresh_active \/ AliveLoops = {})
       /\ StartBackgroundRefresh("t1")
    \/ StopBackgroundRefresh("t1")
    \/ \E l \in LoopIds : LoopTick(l)
    \/ \E l \in LoopIds : LoopScan(l)
    \/ total_collections < BgMaxCollects
       /\ \E l \in LoopIds : RefreshCollect(l)
    \/ \E l \in LoopIds : RefreshApply(l)

SpecBg == InitBg /\ [][NextBg]_vars

\* SpecLru: one caller filling a cache of LruMaxEntries entries.  Keys are
\* interchangeable, so the caller asks either for a key that is in the map or
\* for the next key of LruKeySeq it has not asked for yet; every collection
\* succeeds.
InitLru == InitWith({MetricsCacheConfig(m, TRUE) : m \in {0, LruMaxEntries}})

NextLru ==
    \/ /\ stats.total_requests < LruMaxRequests
       /\ stats.cache_hits < LruMaxHits
       /\ \E k \in DOMAIN cache : GetMetrics("t1", k)
    \/ /\ stats.total_requests < LruMaxRequests
       /\ total_collections < Len(LruKeySeq)
       /\ GetMetrics("t1", LruKeySeq[total_collections + 1])
    \/ Collected("t1", MetricsOk(total_collections + 1))
    \/ GetSteps("t1")

SpecLru == InitLru /\ [][NextLru]_vars

\* SpecLoops: a caller of get_metrics on one key, a caller of
\* start_background_refresh and stop_background_refresh, the clock, and the
\* loops that are spawned with their refresh tasks.
InitLoops == InitWith({MetricsCacheConfig(MaxEntriesBound, e) : e \in BOOLEAN})

\* The timer of loop l fires; while the refresh is active it fires only as long
\* as fewer than LoopsMaxCollects Collector calls were made.
TimerFires(l) ==
    /\ ~background_refresh_active \/ total_collections < LoopsMaxCollects
    /\ LoopTick(l)

\* The steps that end with a lock released.
Releases(t) ==
    \/ GetHitOrder(t)
    \/ PutOrder(t)

NextLoops ==
    \/ now < LoopsMaxTime /\ Tick
    \/ stats.total_requests < LoopsMaxRequests /\ GetMetrics("t1", "a")
    \/ GetCollect("t1")
    \/ GetSteps("t1")
    \/ StartBackgroundRefresh("t2")
    \/ StopBackgroundRefresh("t2")
    \/ \E l \in LoopIds : TimerFires(l)
    \/ \E l \in LoopIds : LoopScan(l)
    \/ \E l \in LoopIds : RefreshCollect(l)
    \/ \E l \in LoopIds : RefreshApply(l)

SpecLoops == InitLoops /\ [][NextLoops]_vars

\* SpecLoopsFair: the same, where a timer that is to fire fires, a scan and a
\* refresh task that can go on go on (the Collector returns), and a caller
\* that holds a lock goes on to release it.
SpecLoopsFair ==
    /\ SpecLoops
    /\ \A l \in LoopIds :
          /\ WF_vars(TimerFires(l))
          /\ WF_vars(LoopScan(l))
          /\ WF_vars(RefreshCollect(l))
          /\ WF_vars(RefreshApply(l))
    /\ \A t \in Tasks : WF_vars(Releases(t))

\* SpecRace: two callers of get_metrics on one key, one of them also of clear
\* and cleanup_expired, the clock, and one background loop with its refresh
\* tasks, started once and never stopped.
InitRace == InitWith({MetricsCacheConfig(MaxEntriesBound, TRUE)})

NextRace ==
    \/ now < RaceMaxTime /\ Tick
    \/ stats.total_requests < RaceMaxRequests
       /\ \E t \in Tasks : GetMetrics(t, "a")
    \/ total_collections < RaceMaxCollects
       /\ \E t \in Tasks : GetCollect(t)
    \/ \E t \in Tasks : GetSteps(t)
    \/ MaintenanceSteps("t2")
    \/ AliveLoops = {} /\ StartBackgroundRefresh("t1")
    \/ \E l \in LoopIds : LoopTick(l)
    \/ \E l \in LoopIds : LoopScan(l)
    \/ total_collections < RaceMaxCollects
       /\ \E l \in LoopIds : RefreshCollect(l)
    \/ \E l \in LoopIds : RefreshApply(l)

SpecRace == InitRace /\ [][NextRace]_vars

\* SpecSse: the SSE service with one broadcaster and two connections; a
\* stream is polled whenever its client reads, so it may fall behind by any
\* number of values.  The application may drop the service, a client may go.
InitSse == InitWith({MetricsCacheConfig(MaxEntriesBound, TRUE)})

\* The timer of a broadcaster task fires, as long as fewer than MaxTicks
\* ticks were counted.
BroadcasterTick == ticks < MaxTicks /\ Broadcast

NextSse ==
    \/ broadcasters < MaxBroadcasters /\ StartTimeBroadcaster
    \/ DropService
    \/ BroadcasterTick
    \/ \E c \in Conns : CreateTimeStream(c)
    \/ \E c \in Conns : Disconnect(c)
    \/ \E c \in Conns : TimeStreamNext(c)

SpecSse == InitSse /\ [][NextSse]_vars

\* SpecSseFair: the same, where the timer of a running broadcaster fires and a
\* stream that is ready is polled (its task is woken by the channel).
SpecSseFair ==
    /\ SpecSse
    /\ WF_vars(BroadcasterTick)
    /\ \A c \in Conns : WF_vars(TimeStreamNext(c))

\* SpecSseOneReader: the same as SpecSse, where the timer of a running
\* broadcaster fires and the client of c1 keeps reading; the client of c2
\* reads when it likes, or never.
SpecSseOneReader ==
    /\ SpecSse
    /\ WF_vars(BroadcasterTick)
    /\ WF_vars(TimeStreamNext("c1"))

\* SpecMs: the metrics streams of two connections over one cache, and the
\* clock.  The ServerInfo is the one of lib.rs or the one of main.rs's tests,
\* the collection interval the default, and the Collector's first snapshot
\* passes validation or not.
InitMs ==
    InitApp({MetricsCacheConfig(MaxEntriesBound, TRUE)},
            {LibServerInfo, TestServerInfo},
            {DefaultCollectionIntervalSeconds},
            {{}, {1}})

\* What a Collector call returns here: full data, partial data or a hard Error.
MsOutcomes(m) ==
    {MetricsOk(m), MetricsPartialData(m, <<"CpuError">>),
     MetricsError("SystemUnavailable")}

NextMs ==
    \/ now < MsMaxTime /\ Tick
    \/ \E c \in Conns : ServerStatusStream(c)
    \/ \E c \in Conns : stats.total_requests < MsMaxRequests /\ MetricsStreamTick(c)
    \/ \E t \in Tasks : \E r \in MsOutcomes(total_collections + 1) : Collected(t, r)
    \/ \E t \in Tasks : GetSteps(t)
    \/ \E c \in Conns : MetricsStreamEmit(c)
    \/ \E c \in Conns : MetricsStreamDrop(c)

SpecMs == InitMs /\ [][NextMs]_vars

\* SpecErr: collection errors of every kind are put together, combined with
\* MetricsCollectionError::multiple to any nesting, and returned by
\* get_server_status.
InitErr == InitWith({MetricsCacheConfig(MaxEntriesBound, TRUE)})

NextErr ==
    \/ \E kind \in LeafKinds : PushError(kind)
    \/ \E k \in 0..ErrMaxNodes : CombineErrors(k)
    \/ GetServerStatusFails

SpecErr == InitErr /\ [][NextErr]_vars

\* SpecCollect: the Collector called again and again on a system whose
\* readings change from call to call, with the network part on or off.
InitCollect ==
    /\ MetricsServiceWithConfig(BOOLEAN)
    /\ InitRest({MetricsCacheConfig(MaxEntriesBound, TRUE)}, {LibServerInfo},
                {DefaultCollectionIntervalSeconds}, {{}})

NextCollect == CollectFreshMetrics

SpecCollect == InitCollect /\ [][NextCollect]_vars

\* SpecForce: one caller of get_metrics and clear, the clock, and requests
\* with force_refresh = true at any moment between that caller's steps.  The
\* readings are those of a machine with or without memory, with or without a
\* CPU, its uptime missing with the CPU.
ForceReadings ==
    {r \in Readings : r.cpus <= 1 /\ r.cpu_usage = 0 /\ r.uptime = r.cpus}

ElapsedMs == {0, CachedBelowMs}

InitForce == InitWith({MetricsCacheConfig(MaxEntriesBound, TRUE)})

NextForce ==
    \/ now < ForceMaxTime /\ Tick
    \/ stats.total_requests < ForceMaxRequests
       /\ \E arg \in BgKeyArgs : GetMetrics("t1", arg)
    \/ GetCollect("t1")
    \/ GetSteps("t1")
    \/ Clear("t1")
    \/ ClearOrder("t1")
    \/ total_collections < ForceMaxCollects
       /\ \E sys \in ForceReadings : \E ms \in ElapsedMs :
             GetServerStatusForced(sys, ms)

SpecForce == InitForce /\ [][NextForce]_vars

\* SpecLive: two callers of get_metrics on one key, one of them also of clear
\* and cleanup_expired, and one background loop with its refresh tasks.  The
\* cache is configured with a prefetch threshold of 100 %, so that every entry
\* is refreshed at the next tick and the clock can stand still.  No Collector
\* call is held back: the loop's timer stops firing after LiveMaxCollects
\* calls instead.
PrefetchAlways == 100

InitLive ==
    InitWith({[MetricsCacheConfig(MaxEntriesBound, TRUE)
                  EXCEPT !.prefetch_threshold_pct = PrefetchAlways]})

LiveOutcomes(m) == {MetricsOk(m), MetricsError("SystemUnavailable")}

LiveTimerFires(l) ==
    /\ total_collections < LiveMaxCollects
    /\ LoopTick(l)

\* The steps with which a clear or a cleanup_expired that has begun goes on.
MaintenanceGoesOn(t) ==
    \/ ClearOrder(t)
    \/ CleanupRemove(t)

LiveCollect(t) ==
    \E r \in LiveOutcomes(total_collections + 1) : Collected(t, r)

NextLive ==
    \/ stats.total_requests < LiveMaxRequests
       /\ \E t \in Tasks : GetMetrics(t, "a")
    \/ \E t \in Tasks : LiveCollect(t)
    \/ \E t \in Tasks : GetSteps(t)
    \/ MaintenanceSteps("t2")
    \/ AliveLoops = {} /\ StartBackgroundRefresh("t1")
    \/ \E l \in LoopIds : LiveTimerFires(l)
    \/ \E l \in LoopIds : LoopScan(l)
    \/ \E l \in LoopIds : RefreshCollect(l)
    \/ \E l \in LoopIds : RefreshApply(l)

SpecLive == InitLive /\ [][NextLive]_vars

\* SpecLiveFair: the Collector returns, and a task that waits for a lock gets
\* it when the lock is free again and again (the locks of tokio queue their
\* waiters); a step that waits for nothing is taken.
SpecLiveFair ==
    /\ SpecLive
    /\ \A t \in Tasks :
          /\ WF_vars(LiveCollect(t))
          /\ SF_vars(GetSteps(t))
          /\ WF_vars(MaintenanceGoesOn(t))
    /\ \A l \in LoopIds :
          /\ SF_vars(LoopScan(l))
          /\ WF_vars(RefreshCollect(l))
          /\ SF_vars(RefreshApply(l))

\* ---------------------------------------------------------------- properties

\* Task t takes a step of its own.
Moved(t) == pc'[t] # pc[t]

\* The age of the entry stored under k.
Age(k) == now - cache[k].created_at

\* Task t is in (or has returned from) a get_metrics call on the key of the
\* successful get_metrics call it made just before.
AfterSuccessfulGet(t) ==
    call[t] = "get_metrics" /\ follows[t] = "get_after_successful_get"

\* C1: a get(K) that immediately follows a successful get(K) (Ok or PartialData)
\* finds the entry in the map, holding the snapshot the first get returned; if
\* the entry's age is within the TTL when it is looked up, the get takes the hit
\* path: it returns Ok with the stored snapshot, adds one to cache_hits, leaves
\* cache_misses as it is and calls the Collector no second time.
C1_Step(t) ==
    /\ (Free(t) /\ pc'[t] = "get_lookup"
        /\ follows'[t] = "get_after_successful_get")
          => /\ key'[t] \in DOMAIN cache'
             /\ cache'[key'[t]].data = result[t].data
             /\ total_collections' = total_collections
    /\ (AfterSuccessfulGet(t) /\ pc[t] = "get_lookup")
          => /\ key[t] \in DOMAIN cache
             /\ (Moved(t) /\ Age(key[t]) <= config.ttl)
                   => /\ pc'[t] = "get_hit_order"
                      /\ stats' = stats
                      /\ total_collections' = total_collections
    /\ (AfterSuccessfulGet(t) /\ pc[t] = "get_hit_order" /\ Moved(t))
          => /\ pc'[t] = "get_hit_stats"
             /\ result'[t] = MetricsOk(cache[key[t]].data)
             /\ stats' = stats
             /\ total_collections' = total_collections
    /\ (AfterSuccessfulGet(t) /\ pc[t] = "get_hit_stats" /\ Moved(t))
          => /\ pc'[t] = "done"
             /\ result'[t] = result[t]
             /\ stats'.cache_hits = stats.cache_hits + 1
             /\ stats'.cache_misses = stats.cache_misses
             /\ total_collections' = total_collections

C1_HitAfterSuccessfulGet == [][\A t \in Tasks : C1_Step(t)]_vars

\* A get that follows a successful get on the same key is on the hit path.
C1_Witness ==
    AfterSuccessfulGet("t1") /\ pc["t1"] = "get_hit_stats"

\* C2: a get(K) on an entry older than the TTL is a miss: cache_misses is
\* incremented, the Collector is called and, on success, the entry is replaced
\* by a new one; no step but that replacement, cleanup_expired's removal, an
\* eviction or clear takes an expired entry out of the map, so it still counts
\* in the number of entries.  An entry whose age equals the TTL is a hit.
C2_Step(t) ==
    /\ (pc[t] = "get_lookup" /\ Moved(t) /\ key[t] \in DOMAIN cache)
          => /\ Age(key[t]) > config.ttl => pc'[t] = "get_miss_stats"
             /\ Age(key[t]) = config.ttl => pc'[t] = "get_hit_order"
             /\ cache' = cache
    /\ (pc[t] = "get_miss_stats" /\ Moved(t))
          => /\ pc'[t] = "get_collect"
             /\ stats'.cache_misses = stats.cache_misses + 1
             /\ cache' = cache
    /\ (pc[t] = "get_collect" /\ Moved(t))
          => /\ total_collections' = total_collections + 1
             /\ pc'[t] = IF result'[t].tag \in SuccessTags THEN "get_put" ELSE "done"
             /\ cache' = cache
    /\ (pc[t] = "get_put" /\ Moved(t))
          => /\ key[t] \in DOMAIN cache'
             /\ cache'[key[t]].data = result[t].data
             /\ cache'[key[t]].created_at = now

\* The steps that may take an entry out of the map or put a new one in its place.
Replaces(t) ==
    \/ pc[t] = "get_put" /\ pc'[t] = "get_put_order"
    \/ pc[t] = "cleanup_remove" /\ pc'[t] = "done"
    \/ Free(t) /\ pc'[t] = "clear_order"

C2_ExpiredStays ==
    (\A t \in Tasks : ~Replaces(t))
       => \A k \in DOMAIN cache :
             Age(k) > config.ttl => k \in DOMAIN cache' /\ cache'[k] = cache[k]

C2_ExpiredIsMiss == [][(\A t \in Tasks : C2_Step(t)) /\ C2_ExpiredStays]_vars

\* A get has missed on a key whose expired entry is still in the map.
C2_Witness ==
    /\ pc["t1"] = "get_put"
    /\ key["t1"] \in DOMAIN cache
    /\ Age(key["t1"]) > config.ttl
    /\ stats.current_entries = Cardinality(DOMAIN cache)

\* The number of keys an eviction pass is to take: a quarter of max_entries,
\* rounded down, and at least one.
BatchSize(max_entries) ==
    IF max_entries \div 4 >= 1 THEN max_entries \div 4 ELSE 1

\* The insert of task t: the step that takes it from get_put to get_put_order.
\* When the map holds max_entries entries or more, an eviction pass runs first.
C3_Step(t) ==
    (pc[t] = "get_put" /\ Moved(t))
       => LET n == Min(BatchSize(config.max_entries), Len(recency))
              victims == {recency[i] : i \in 1..n}
          IN /\ Cardinality(DOMAIN cache') <= config.max_entries
             /\ Cardinality(DOMAIN cache) >= config.max_entries
                   => /\ DOMAIN cache' = (DOMAIN cache \ victims) \cup {key[t]}
                      /\ access_order' = SubSeq(access_order, n + 1, Len(access_order))
                      /\ victims = {access_order[i] : i \in 1..n}
                      /\ stats'.evictions = stats.evictions + n
             /\ Cardinality(DOMAIN cache) < config.max_entries
                   => /\ DOMAIN cache' = DOMAIN cache \cup {key[t]}
                      /\ access_order' = access_order
                      /\ stats'.evictions = stats.evictions

\* C3: for every max_entries, after each insert the map holds at most
\* max_entries entries, and an eviction pass removes exactly the k least
\* recently accessed keys, the front of the access order, where
\* k = max(1, max_entries div 4), or all the keys when there are fewer.
C3_BoundedAndLru == [][\A t \in Tasks : C3_Step(t)]_vars

\* The same for every max_entries of one or more.
C3_PositiveCapacity ==
    [][config.max_entries >= 1 => \A t \in Tasks : C3_Step(t)]_vars

\* An insert into a cache of max_entries 0 has completed.
C3_Witness ==
    /\ config.max_entries = 0
    /\ pc["t1"] = "get_put_order"
    /\ Cardinality(DOMAIN cache) = 1

\* An eviction pass of a full cache of LruMaxEntries entries has taken its
\* batch after a hit had changed the order of the keys.
C3_BatchWitness ==
    /\ config.max_entries = LruMaxEntries
    /\ pc["t1"] = "get_put_order"
    /\ stats.evictions = BatchSize(LruMaxEntries)
    /\ stats.cache_hits > 0
    /\ LruKeySeq[1] \in DOMAIN cache

\* C4: the insert of a miss on a key that is in the map (its entry expired)
\* takes the number of entries no higher, so it evicts nothing: it replaces
\* that entry and leaves the set of keys and every other entry as they were,
\* also when the map holds exactly max_entries entries.
C4_Step(t) ==
    (pc[t] = "get_put" /\ Moved(t) /\ key[t] \in DOMAIN cache)
       => /\ DOMAIN cache' = DOMAIN cache
          /\ \A k \in DOMAIN cache \ {key[t]} : cache'[k] = cache[k]

C4_StaleMissEvictsNothing == [][\A t \in Tasks : C4_Step(t)]_vars

\* A miss on an expired key is about to insert into a map that holds exactly
\* max_entries entries, another key among them.
C4_Witness ==
    /\ pc["t1"] = "get_put"
    /\ key["t1"] \in DOMAIN cache
    /\ Age(key["t1"]) > config.ttl
    /\ Cardinality(DOMAIN cache) = config.max_entries
    /\ DOMAIN cache # {key["t1"]}

\* No task holds the lock of the entry map, for reading or for writing.
NoMapLock == cache_writer = NoTask /\ cache_readers = {}

C6_Step(t) ==
    /\ (Free(t) /\ pc'[t] = "get_lookup")
          => /\ stats' = [stats EXCEPT !.total_requests = @ + 1]
             /\ cache' = cache /\ access_order' = access_order
    /\ (pc[t] = "get_lookup" /\ pc'[t] = "get_miss_stats")
          => stats' = stats /\ cache' = cache /\ access_order' = access_order
    /\ (pc[t] = "get_miss_stats" /\ Moved(t))
          => /\ stats'.cache_misses = stats.cache_misses + 1
             /\ stats'.total_requests = stats.total_requests
             /\ cache' = cache /\ access_order' = access_order
    /\ (pc[t] = "get_collect" /\ Moved(t))
          => /\ result'[t] \in CollectorOutcomes(total_collections')
             /\ stats' = stats /\ cache' = cache /\ access_order' = access_order
             /\ result'[t].tag = "Error" <=> pc'[t] = "done"

\* A get that has returned a hard Error did so from the miss path.
C6_Returned ==
    \A t \in Tasks :
       (pc[t] = "done" /\ result[t].tag = "Error")
          => /\ call[t] = "get_metrics"
             /\ result[t] \in {MetricsError(e) : e \in ErrorKinds}
             /\ stats.cache_misses > 0

C6_ErrorNotCached == [][(\A t \in Tasks : C6_Step(t)) /\ C6_Returned']_vars

\* A get has returned a hard Error and the expired entry of its key is there.
C6_Witness ==
    /\ pc["t1"] = "done"
    /\ result["t1"].tag = "Error"
    /\ key["t1"] \in DOMAIN cache
    /\ Age(key["t1"]) > config.ttl

\* C7: when get(K) misses and the Collector returns PartialData(snapshot,
\* errors), the snapshot is stored as the entry of K, the entry being the one a
\* full success with that snapshot would store, and the caller receives
\* PartialData with that snapshot and that list of errors.
C7_Step(t) ==
    /\ (pc[t] = "get_collect" /\ Moved(t) /\ result'[t].tag = "PartialData")
          => /\ pc'[t] = "get_put"
             /\ \E errs \in PartialErrorLists :
                   result'[t] = MetricsPartialData(total_collections', errs)
    /\ (pc[t] = "get_put" /\ Moved(t))
          => /\ key[t] \in DOMAIN cache'
             /\ cache'[key[t]] =
                   [data |-> result[t].data, created_at |-> now,
                    accessed_at |-> now, access_count |-> 1, cache_key |-> key[t]]
             /\ result'[t] = result[t]
    /\ (pc[t] = "get_put_order" /\ Moved(t))
          => /\ pc'[t] = "done"
             /\ result'[t] = result[t]
             /\ cache' = cache

C7_PartialStored == [][\A t \in Tasks : C7_Step(t)]_vars

\* A get has returned PartialData with two errors and its snapshot is stored.
C7_Witness ==
    /\ pc["t1"] = "done"
    /\ result["t1"].tag = "PartialData"
    /\ Len(result["t1"].errors) = 2
    /\ key["t1"] \in DOMAIN cache
    /\ cache[key["t1"]].data = result["t1"].data

\* The counters of the statistics that are not the number of entries.
Counters(s) ==
    <<s.total_requests, s.cache_hits, s.cache_misses, s.evictions,
      s.background_refreshes, s.failed_refreshes>>

\* C8: clear() leaves the entry map and the access order empty and
\* current_entries 0, and changes none of total_requests, cache_hits,
\* cache_misses, evictions, background_refreshes and failed_refreshes; the get
\* that follows it is a miss, whatever its key.
C8_Step(t) ==
    /\ (Free(t) /\ pc'[t] = "clear_order")
          => cache' = EmptyMap /\ Counters(stats') = Counters(stats)
    /\ (pc[t] = "clear_order" /\ Moved(t))
          => /\ pc'[t] = "done"
             /\ cache' = EmptyMap
             /\ access_order' = <<>>
             /\ stats'.current_entries = 0
             /\ Counters(stats') = Counters(stats)
    /\ (call[t] = "get_metrics" /\ follows[t] = "get_after_clear"
        /\ pc[t] = "get_lookup" /\ Moved(t))
          => pc'[t] = "get_miss_stats"

C8_ClearEmpties == [][\A t \in Tasks : C8_Step(t)]_vars

\* The get that follows a clear has missed, after an earlier get had hit.
C8_Witness ==
    /\ call["t1"] = "get_metrics"
    /\ follows["t1"] = "get_after_clear"
    /\ pc["t1"] = "get_miss_stats"
    /\ stats.cache_hits > 0

\* The keys of the entries that were older than the TTL when task t's call began.
ExpiredAtCall(t) ==
    {k \in DOMAIN cache : called_at[t] - cache[k].created_at > config.ttl}

\* C9: cleanup_expired() removes from the map exactly the entries whose age
\* exceeds the TTL (when it scans, as it begins) and leaves the others as they
\* are, removes exactly those keys from the access order, keeping the order of
\* the remaining keys, returns the number removed and adds that number to the
\* evictions counter.
C9_Step(t) ==
    /\ (Free(t) /\ pc'[t] = "cleanup_remove")
          => cache' = cache /\ access_order' = access_order /\ stats' = stats
    /\ (pc[t] = "cleanup_remove" /\ Moved(t))
          => LET gone == ExpiredAtCall(t)
             IN /\ pc'[t] = "done"
                /\ cache' = [k \in DOMAIN cache \ gone |-> cache[k]]
                /\ access_order' = SelectSeq(access_order, LAMBDA x : x \notin gone)
                /\ result'[t] = CountResult(Cardinality(gone))
                /\ stats'.evictions = stats.evictions + Cardinality(gone)
                /\ stats'.current_entries = Cardinality(DOMAIN cache \ gone)
                      \/ (gone = {} /\ stats' = stats)

C9_CleanupRemovesExpired == [][\A t \in Tasks : C9_Step(t)]_vars

\* cleanup_expired has removed an expired entry and kept one that was not.
C9_Witness ==
    /\ pc["t1"] = "done"
    /\ call["t1"] = "cleanup_expired"
    /\ result["t1"].data > 0
    /\ access_order # <<>>
    /\ stats.evictions = result["t1"].data

\* Task t's cleanup_expired, between its scan and its removal, follows another
\* cleanup_expired of t with no call in between.
SecondCleanup(t) ==
    /\ call[t] = "cleanup_expired"
    /\ pc[t] = "cleanup_remove"
    /\ follows[t] \in {"cleanup_after_cleanup", "cleanup_after_cleanup_and_expiry"}

\* What the second call is to do: return 0 and change nothing.
RemovesNothing(t) ==
    /\ result'[t] = CountResult(0)
    /\ cache' = cache
    /\ access_order' = access_order
    /\ stats' = stats

\* C10: cleanup_expired() called twice in a row, with no insert in between and
\* no entry's age passing the TTL between the beginnings of the two calls,
\* returns 0 the second time and leaves the map, the access order and the
\* evictions counter as they are.
C10_SecondCleanupIsNoop ==
    [][\A t \in Tasks :
          (SecondCleanup(t) /\ follows[t] = "cleanup_after_cleanup" /\ Moved(t))
             => RemovesNothing(t)]_vars

\* The second of two cleanups in a row is between its scan and its removal,
\* the first having removed an entry and kept another.
C10_Witness ==
    /\ SecondCleanup("t1")
    /\ follows["t1"] = "cleanup_after_cleanup"
    /\ stats.evictions > 0
    /\ cache # EmptyMap

\* C10 as stated: cleanup_expired() called twice in a row with no insert in
\* between returns 0 the second time and changes nothing.
C10_Original ==
    [][\A t \in Tasks : (SecondCleanup(t) /\ Moved(t)) => RemovesNothing(t)]_vars

\* What a start_background_refresh call may change, and no other step does:
\* it may spawn a loop task and it may set background_refresh_active.
StartsNothing ==
    /\ AliveLoops' \subseteq AliveLoops
    /\ background_refresh_active' => background_refresh_active

\* C11: start_background_refresh() called while a background loop is running
\* (two calls at once included) spawns no further loop and changes no state,
\* and so does a call when enable_background_refresh is false.
C11_StartIsNoop ==
    [][(AliveLoops # {} \/ ~config.enable_background_refresh)
          => StartsNothing]_vars

\* The same for the calls made while background_refresh_active is set.
C11_StartWhileActive ==
    [][(background_refresh_active \/ ~config.enable_background_refresh)
          => StartsNothing]_vars

\* Two loop tasks are alive after a caller has returned from
\* start_background_refresh.
C11_Witness ==
    /\ Cardinality(AliveLoops) = 2
    /\ \E t \in Tasks : pc[t] = "done" /\ call[t] = "start_background_refresh"

\* Loop l comes out of its tick, or out of the wait for its refresh tasks and
\* the tick after it.
LeavesTick(l) ==
    /\ loops[l] \in {"tick", "join"}
    /\ loops'[l] # loops[l]

\* The running refresh task of loop l writes its result.
AppliesRefresh(l) ==
    /\ refreshes[l] # <<>>
    /\ Head(refreshes[l]).stage = "apply"
    /\ refreshes'[l] # refreshes[l]

\* C12: after stop_background_refresh(), and as long as
\* start_background_refresh() is not called again, every loop ends: at its
\* next tick it finds the flag cleared and returns, with no scan and no new
\* refresh; the refresh tasks that run when stop is called come to their end,
\* and what they collected is written to their entry.
C12_StopEndsLoop ==
    /\ (~background_refresh_active /\ AliveLoops # {})
          ~> (AliveLoops = {} \/ background_refresh_active)
    /\ [][\A l \in LoopIds :
            (LeavesTick(l) /\ ~background_refresh_active)
               => /\ loops'[l] = "absent"
                  /\ refreshes' = refreshes
                  /\ total_collections' = total_collections
                  /\ cache' = cache /\ stats' = stats]_vars
    /\ \A l \in LoopIds :
          (~background_refresh_active /\ refreshes[l] # <<>>)
             ~> (refreshes[l] = <<>>)
    /\ [][\A l \in LoopIds :
            (AppliesRefresh(l) /\ ~background_refresh_active
                /\ Head(refreshes[l]).key \in DOMAIN cache)
               => /\ cache'[Head(refreshes[l]).key].data = Head(refreshes[l]).data
                  /\ cache'[Head(refreshes[l]).key].created_at = now]_vars

\* stop_background_refresh has returned with a refresh task between its
\* Collector call and its write, and neither write nor loop exit has come yet.
C12_InFlightWitness ==
    /\ pc["t2"] = "done" /\ call["t2"] = "stop_background_refresh"
    /\ ~background_refresh_active
    /\ \E l \in LoopIds :
          /\ loops[l] = "join"
          /\ refreshes[l] # <<>>
          /\ Head(refreshes[l]).stage = "apply"

\* After stop_background_refresh the loop has ended, and the entry holds what
\* a refresh task wrote.
C12_Witness ==
    /\ pc["t2"] = "done" /\ call["t2"] = "stop_background_refresh"
    /\ ~background_refresh_active
    /\ AliveLoops = {}
    /\ stats.background_refreshes > 0
    /\ "a" \in DOMAIN cache /\ cache["a"].data = total_collections

\* The Collector call of the running refresh task of loop l returns a hard
\* Error: the task ends without reaching its write.
RefreshFails(l) ==
    /\ refreshes[l] # <<>>
    /\ Head(refreshes[l]).stage = "collect"
    /\ refreshes'[l] = Tail(refreshes[l])

\* C13: when the background refresh of a key fails with a hard Error, the
\* entry stays in the map with its data and its created_at as they were (so it
\* expires by its original TTL and is a hit until then), and failed_refreshes
\* grows by one, no other counter changing.
C13_FailedRefreshKeepsEntry ==
    [][\A l \in LoopIds :
          RefreshFails(l)
             => /\ cache' = cache
                /\ access_order' = access_order
                /\ stats' = [stats EXCEPT !.failed_refreshes = @ + 1]
                /\ \A k \in DOMAIN cache :
                      /\ k \in DOMAIN cache'
                      /\ cache'[k].data = cache[k].data
                      /\ cache'[k].created_at = cache[k].created_at]_vars

\* A refresh has failed and the entry of its key is in the map, older than
\* the prefetch instant, still holding the first snapshot.
C13_Witness ==
    /\ stats.failed_refreshes > 0
    /\ stats.background_refreshes = 0
    /\ \E k \in DOMAIN cache :
          /\ cache[k].data = 1
          /\ now - cache[k].created_at >= 1
          /\ ~IsExpired(cache[k], config.ttl)

\* The write of the running refresh task of loop l, whose Collector call
\* returned Ok or PartialData.
C14_RefreshStep(l) ==
    AppliesRefresh(l)
       => LET r == Head(refreshes[l])
          IN IF r.key \in DOMAIN cache
             THEN /\ cache' = [cache EXCEPT ![r.key] =
                                  [@ EXCEPT !.data = r.data, !.created_at = now]]
                  /\ stats' = [stats EXCEPT !.background_refreshes = @ + 1]
             ELSE cache' = cache /\ stats' = stats

\* A get_metrics whose lookup finds its entry no older than the TTL, the age
\* counted from created_at, returns the entry's snapshot on the hit path.
C14_GetStep(t) ==
    /\ (pc[t] = "get_lookup" /\ Moved(t) /\ key[t] \in DOMAIN cache
          /\ Age(key[t]) <= config.ttl)
          => pc'[t] = "get_hit_order" /\ total_collections' = total_collections
    /\ (pc[t] = "get_hit_order" /\ Moved(t))
          => /\ key[t] \in DOMAIN cache
             /\ result'[t] = MetricsOk(cache[key[t]].data)

\* C14: a refresh that succeeds (Ok or PartialData) on a key that is still
\* in the map replaces the entry's data, sets created_at to the instant of the
\* write and adds one to background_refreshes; a get on the key within one TTL
\* of that instant is a hit that returns the refreshed snapshot, also after the
\* TTL of the first insert has passed.
C14_RefreshRenewsEntry ==
    [][(\A l \in LoopIds : C14_RefreshStep(l))
          /\ (\A t \in Tasks : C14_GetStep(t))]_vars

\* The first get stored snapshot 1 at instant 0, a refresh wrote snapshot 2 at
\* instant 1, and a second get at instant 3, past the TTL of the first insert,
\* is a hit returning snapshot 2.
C14_Witness ==
    /\ now = TtlTicks + 1
    /\ pc["t1"] = "get_hit_stats"
    /\ result["t1"] = MetricsOk(2)
    /\ cache[key["t1"]].created_at = 1
    /\ stats.background_refreshes = 1
    /\ stats.total_requests = 2
    /\ total_collections = 2

\* The keys of the refresh tasks of loop l that have not ended.
RefreshKeys(l) == {refreshes[l][i].key : i \in 1..Len(refreshes[l])}

\* The scan of loop l: every entry it selects has a remaining lifetime r, in
\* percent of the TTL, with 0 < r <= prefetch threshold (so it is not
\* expired); no key is selected twice, no more than max_concurrent_refreshes
\* are selected, and no Collector call is made yet.
C15_ScanStep(l) ==
    (loops[l] = "scan" /\ loops'[l] # "scan")
       => /\ refreshes[l] = <<>>
          /\ Len(refreshes'[l]) <= config.max_concurrent_refreshes
          /\ \A i, j \in 1..Len(refreshes'[l]) :
                refreshes'[l][i].key = refreshes'[l][j].key => i = j
          /\ \A i \in 1..Len(refreshes'[l]) :
                LET k == refreshes'[l][i].key
                IN /\ refreshes'[l][i].stage = "collect"
                   /\ k \in DOMAIN cache
                   /\ Age(k) < config.ttl
                   /\ (config.ttl - Age(k)) * 100
                         <= config.prefetch_threshold_pct * config.ttl
          /\ loops'[l] = IF refreshes'[l] = <<>> THEN "tick" ELSE "join"
          /\ total_collections' = total_collections

\* The refresh tasks of loop l between two scans: each makes one Collector
\* call, for its own key, and then ends or goes on to its write; the loop
\* comes to no further scan before they have all ended.
C15_TaskStep(l) ==
    /\ (loops[l] # "scan" /\ refreshes'[l] # refreshes[l])
          => /\ refreshes[l] # <<>>
             /\ \/ refreshes'[l] = Tail(refreshes[l])
                \/ /\ refreshes'[l] # <<>>
                   /\ Tail(refreshes'[l]) = Tail(refreshes[l])
             /\ Len(refreshes'[l]) = Len(refreshes[l])
                   => /\ Head(refreshes[l]).stage = "collect"
                      /\ Head(refreshes'[l]).stage = "apply"
                      /\ Head(refreshes'[l]).key = Head(refreshes[l]).key
                      /\ total_collections' = total_collections + 1
             /\ Head(refreshes[l]).stage = "collect"
                   => total_collections' = total_collections + 1
             /\ Head(refreshes[l]).stage = "apply"
                   => total_collections' = total_collections
    /\ (refreshes[l] # <<>> /\ loops'[l] # loops[l]) => FALSE

\* A Collector call is made by a get_metrics on its miss path or by the
\* running refresh task of a loop, one call in a step.
C15_CallStep ==
    total_collections' # total_collections
       => /\ total_collections' = total_collections + 1
          /\ \/ \E t \in Tasks : pc[t] = "get_collect" /\ Moved(t)
             \/ \E l \in LoopIds : refreshes[l] # <<>>
                                     /\ Head(refreshes[l]).stage = "collect"
                                     /\ refreshes'[l] # refreshes[l]

\* C15: at each tick the loop selects only entries whose remaining lifetime
\* fraction r = 1 - age/TTL has 0 < r <= prefetch_threshold, none that is
\* expired and none above the threshold, and for the tick at most
\* max_concurrent_refreshes Collector calls are started, one for each selected
\* key.
C15_SelectsDueEntries ==
    [][(\A l \in LoopIds : C15_ScanStep(l) /\ C15_TaskStep(l))
          /\ C15_CallStep]_vars

\* A scan has selected as many keys as max_concurrent_refreshes allows and
\* left out another entry that is due as well, next to an expired one.
C15_Witness ==
    \E l \in LoopIds :
       /\ loops[l] = "join"
       /\ Len(refreshes[l]) = config.max_concurrent_refreshes
       /\ \A i \in 1..Len(refreshes[l]) : refreshes[l][i].stage = "collect"
       /\ \E k \in DOMAIN cache \ RefreshKeys(l) :
             ShouldPrefetch(cache[k], config.ttl, config.prefetch_threshold_pct)

\* A scan finds an expired entry and selects nothing.
C15_ExpiredWitness ==
    \E l \in LoopIds :
       /\ loops[l] = "scan"
       /\ \E k \in DOMAIN cache : IsExpired(cache[k], config.ttl)

\* Task t holds the lock of the entry map (as reader or writer) or the lock
\* of the access order.
HoldsLock(t) ==
    \/ cache_writer = t
    \/ t \in cache_readers
    \/ ao_holder = t

\* Task t has called the Collector and the call has not returned.
Collecting(t) == pc[t] = "get_collect"

\* A refresh task of loop l has called the Collector and the call has not
\* returned.
RefreshCollecting(l) ==
    refreshes[l] # <<>> /\ Head(refreshes[l]).stage = "collect"

\* Every task but u is in a Collector call or in no call at all, and so is
\* every refresh task.
OthersCollecting(u) ==
    /\ \A t \in Tasks \ {u} : Collecting(t) \/ Free(t)
    /\ \A l \in LoopIds : refreshes[l] = <<>> \/ RefreshCollecting(l)

\* Task u can take its next step: begin a clear or a cleanup_expired when it
\* is in no call, go on with its get_metrics, clear or cleanup_expired when it
\* is in one.
CanGoOn(u) ==
    IF Free(u)
    THEN (ENABLED Clear(u)) /\ (ENABLED CleanupExpired(u))
    ELSE Collecting(u) \/ ENABLED (GetSteps(u) \/ MaintenanceSteps(u))

\* C16: no task holds the lock of the entry map or of the access order while
\* a Collector call it made is in progress, on the miss path of get_metrics as
\* in a background refresh (the locks are held by callers only, a refresh task
\* taking the write lock for its write after the Collector has returned); so
\* with every other task in a Collector call that never returns, a task's
\* hit, clear or cleanup_expired can go on.
C16_NoLockAcrossCollect ==
    /\ \A t \in Tasks : Collecting(t) => ~HoldsLock(t)
    /\ cache_writer \in Tasks \cup {NoTask}
    /\ ao_holder \in Tasks \cup {NoTask}
    /\ cache_readers \subseteq Tasks
    /\ \A u \in Tasks : OthersCollecting(u) => CanGoOn(u)

\* A get_metrics and a refresh task are in their Collector calls while the
\* other caller is in the middle of a clear, holding both locks.
C16_Witness ==
    /\ Collecting("t1")
    /\ \E l \in LoopIds : RefreshCollecting(l)
    /\ pc["t2"] = "clear_order"
    /\ HoldsLock("t2")

\* Task t is in a get_metrics call that has not returned.
InGet(t) == call[t] = "get_metrics" /\ ~Free(t)

\* What get_stats() reports: a hit_ratio equal to cache_hits / total_requests,
\* 0 when there was no request, and the number of entries of the map.
StatsExact ==
    /\ IF GetStats.total_requests = 0
       THEN GetStats.hit_ratio[1] = 0
       ELSE GetStats.hit_ratio[1] * GetStats.total_requests
               = GetStats.cache_hits * GetStats.hit_ratio[2]
    /\ GetStats.hit_ratio[2] > 0
    /\ GetStats.current_entries = Cardinality(DOMAIN cache)

\* C17: whenever no get, clear or cleanup_expired is in progress, get_stats()
\* reports hit_ratio = cache_hits / total_requests (0 when no request was made
\* yet), whatever gets were made and however they interleaved, and a
\* current_entries equal to the number of entries in the map.
C17_StatsWhenQuiet ==
    (\A t \in Tasks : Free(t)) => StatsExact

\* Two gets have returned, one a miss and one a hit, and get_stats() reports a
\* hit ratio of 1/2 and one entry.
C17_Witness ==
    /\ \A t \in Tasks : Free(t)
    /\ GetStats.total_requests = 2
    /\ GetStats.cache_hits = 1
    /\ GetStats.hit_ratio = <<1, 2>>
    /\ GetStats.current_entries = 1

\* C17 as stated: whenever no get is in progress, get_stats() reports
\* hit_ratio = cache_hits / total_requests and a current_entries equal to the
\* number of entries in the map.
C17_Original ==
    (\A t \in Tasks : ~InGet(t)) => StatsExact

\* C18: none of the counters total_requests, cache_hits, cache_misses,
\* evictions, background_refreshes and failed_refreshes decreases in any step
\* of any operation, clear and cleanup_expired included.
C18_CountersNeverDecrease ==
    [][\A i \in 1..Len(Counters(stats)) :
          Counters(stats')[i] >= Counters(stats)[i]]_vars

\* A clear has returned after a miss, a background refresh and a hit, and the
\* counters are as they were before it.
C18_Witness ==
    /\ pc["t1"] = "done" /\ call["t1"] = "clear"
    /\ stats.total_requests = 2
    /\ stats.cache_hits = 1
    /\ stats.cache_misses = 1
    /\ stats.background_refreshes = 1
    /\ stats.current_entries = 0

\* The number of positions of key k in the access order.
Positions(k) ==
    Cardinality({i \in 1..Len(access_order) : access_order[i] = k})

\* The insert of task t, in the miss path of its get_metrics.
Puts(t) == pc[t] = "get_put" /\ Moved(t)

\* What a writer does: the insert of a get_metrics stores the snapshot the
\* caller collected itself, a refresh task's write on an entry that is there
\* stores the snapshot of its own Collector call.
C19_WriterStep ==
    /\ \A t \in Tasks :
          Puts(t) => /\ result[t].tag \in SuccessTags
                     /\ key[t] \in DOMAIN cache'
                     /\ cache'[key[t]].data = result[t].data
    /\ \A l \in LoopIds :
          (AppliesRefresh(l) /\ Head(refreshes[l]).key \in DOMAIN cache)
             => cache'[Head(refreshes[l]).key].data = Head(refreshes[l]).data

\* No step but a writer's gives key k an entry or another snapshot, and no
\* step but one of clear, cleanup_expired or an eviction by the insert of
\* another key takes its entry away.
C19_EntryStep(k) ==
    /\ (k \in DOMAIN cache'
          /\ (k \notin DOMAIN cache \/ cache'[k].data # cache[k].data))
          => \/ \E t \in Tasks : Puts(t) /\ key[t] = k
             \/ \E l \in LoopIds : AppliesRefresh(l) /\ Head(refreshes[l]).key = k
    /\ (k \in DOMAIN cache /\ k \notin DOMAIN cache')
          => \E t \in Tasks :
                \/ Free(t) /\ Moved(t) /\ call'[t] = "clear"
                \/ pc[t] = "cleanup_remove" /\ Moved(t)
                \/ Puts(t) /\ key[t] # k

\* What a caller receives: the Collector call of task t gets the next call
\* number, its snapshot carries that number, and the result is the same from
\* the Collector's return to the return of get_metrics.
C19_CallerStep(t) ==
    /\ (Collecting(t) /\ Moved(t))
          => /\ total_collections' = total_collections + 1
             /\ result'[t].tag \in SuccessTags
                   => result'[t].data = total_collections'
    /\ (pc[t] \in {"get_put", "get_put_order"}) => result'[t] = result[t]

\* C19: when gets that miss on the same key K run together, each calling the
\* Collector, and a background refresh runs against a miss on K, then in every
\* interleaving each write stores the writer's own snapshot, so that once all
\* have completed the one entry of K holds the snapshot of the last writer; K
\* is in the access order exactly once; and each caller of get receives the
\* snapshot it collected itself.
C19_LastWriterWins ==
    /\ [][/\ C19_WriterStep
          /\ \A k \in Keys : C19_EntryStep(k)
          /\ \A t \in Tasks : C19_CallerStep(t)]_vars
    /\ []((\A t \in Tasks : Free(t))
             => \A k \in DOMAIN cache : Positions(k) = 1)

\* Both callers have missed on "a" and returned, each with the snapshot of
\* its own Collector call; a refresh has written in between, and the entry
\* holds the snapshot of the caller that wrote last, the first to collect.
C19_Witness ==
    /\ \A t \in Tasks : pc[t] = "done" /\ call[t] = "get_metrics"
    /\ stats.cache_misses = 2
    /\ result["t1"].tag \in SuccessTags /\ result["t1"].data = 1
    /\ result["t2"].tag \in SuccessTags /\ result["t2"].data = 2
    /\ stats.background_refreshes = 1
    /\ "a" \in DOMAIN cache /\ cache["a"].data = 1
    /\ access_order = <<"a">>

\* The channel still retains the value.
Retained(time_event) ==
    \E i \in 1..Len(channel) : channel[i] = time_event

\* The values sent to connection c that its stream has not received and the
\* channel has overwritten: their number is how far the stream has lagged.
Overwritten(c) ==
    Cardinality({p \in (rx_next[c] + 1)..Len(sse_log) : ~Retained(sse_log[p])})

\* The stream of connection c yields an event.
Yields(c) == conn[c] = "open" /\ delivered'[c] # delivered[c]

\* What the stream of connection c yields: with N > 0 values overwritten, one
\* connection-lagged event with missed_events = N, after which the stream is
\* open and stands at the oldest value retained; with none overwritten, the
\* time-update event of the oldest value it has not received.
C20_Step(c) ==
    Yields(c)
       => /\ Len(delivered'[c]) = Len(delivered[c]) + 1
          /\ SubSeq(delivered'[c], 1, Len(delivered[c])) = delivered[c]
          /\ conn'[c] = "open"
          /\ LET e == delivered'[c][Len(delivered'[c])]
                 N == Overwritten(c)
             IN IF N > 0
                THEN /\ e = [event |-> "connection-lagged", id |-> c,
                             data |-> [missed_events |-> N]]
                     /\ Overwritten(c)' = 0
                     /\ sse_log[rx_next'[c] + 1] = channel[1]
                ELSE /\ e.event = "time-update"
                     /\ e.id = c
                     /\ e.data.timestamp = sse_log[rx_next[c] + 1].timestamp
                     /\ rx_next'[c] = rx_next[c] + 1

\* C20: when a time-stream subscriber has fallen behind so far that N of the
\* values buffered for it were overwritten, its next receive yields one
\* connection-lagged event with missed_events = N, the stream does not end,
\* and the subscriber goes on to receive the retained values in send order.
C20_LagIsReported ==
    [][\A c \in Conns : C20_Step(c)]_vars

\* The stream of c1, subscribed before the first tick and not read until the
\* last, has yielded the lag report of the values overwritten and then every
\* retained value, in send order.
C20_Witness ==
    /\ ticks = MaxTicks /\ tail_pos = MaxTicks
    /\ MaxTicks > BufferSize
    /\ Len(delivered["c1"]) = BufferSize + 1
    /\ delivered["c1"][1] = ConnectionLaggedEvent("c1", MaxTicks - BufferSize)
    /\ \A i \in 1..BufferSize :
          delivered["c1"][i + 1]
             = TimeUpdateEvent("c1", TimeEventNew(MaxTicks - BufferSize + i))

\* The stream of connection c ends: its poll yields end-of-stream.
Ends(c) == conn[c] = "open" /\ conn'[c] = "ended"

\* C21: a time stream ends when the channel reports that it is closed, every
\* sender being gone (and every value stored for the stream received); it does
\* not end while a sender exists, and a lag report leaves it open.  A stream
\* that is polled when the channel is closed does come to its end, unless its
\* client goes first.
C21_EndsOnlyWhenClosed ==
    /\ [][\A c \in Conns :
            /\ Ends(c) => /\ SenderCount = 0
                          /\ rx_next[c] = tail_pos
                          /\ delivered'[c] = delivered[c]
            /\ Yields(c) => conn'[c] = "open"
            /\ (conn[c] = "open" /\ SenderCount > 0) => conn'[c] # "ended"]_vars
    /\ \A c \in Conns :
          (conn[c] = "open" /\ SenderCount = 0) ~> (conn[c] \in {"ended", "dropped"})

\* The service was dropped with no broadcaster started, and the stream of c1
\* has ended while the client of c2 has not polled yet.
C21_Witness ==
    /\ ~service_alive /\ broadcasters = 0
    /\ conn["c1"] = "ended"
    /\ conn["c2"] = "open"

\* A stream has reported a lag and is open, the senders still there.
C21_LagWitness ==
    /\ SenderCount > 0
    /\ conn["c1"] = "open"
    /\ Len(delivered["c1"]) > 0
    /\ delivered["c1"][Len(delivered["c1"])].event = "connection-lagged"

\* A broadcaster task sends: the tick counter moves.
Sends == ticks' # ticks

\* C22: the send of the broadcaster waits for no subscriber.  Whatever the
\* number of streams and however far behind they are, one that is never read
\* included, a running broadcaster can send; the send is one step that stores
\* the value (when there is a receiver) and touches no receiver; the
\* broadcaster comes to each of its ticks; and a stream that keeps being read
\* receives the stored values one by one in send order, and all of them in
\* the end, whatever the other stream does.
C22_SendNeverWaits ==
    /\ [](broadcasters > 0 => ENABLED Broadcast)
    /\ [][Sends => /\ ticks' = ticks + 1
                   /\ rx_next' = rx_next /\ conn' = conn /\ delivered' = delivered
                   /\ broadcasters' = broadcasters
                   /\ ReceiverCount > 0
                         => /\ tail_pos' = tail_pos + 1
                            /\ channel'[Len(channel')] = TimeEventNew(ticks')]_vars
    /\ [][\A c \in Conns :
            (Yields(c) /\ tail_pos - rx_next[c] <= BufferSize)
               => /\ delivered'[c]
                       = Append(delivered[c],
                                TimeUpdateEvent(c, sse_log[rx_next[c] + 1]))
                  /\ rx_next'[c] = rx_next[c] + 1]_vars
    /\ (broadcasters > 0) ~> (ticks = MaxTicks)
    /\ (conn["c1"] = "open") ~> (conn["c1"] # "open" \/ rx_next["c1"] = tail_pos)

\* The stream of c2 was never read and is further behind than the buffer
\* holds, while the stream of c1 has received every value sent.
C22_Witness ==
    /\ conn["c2"] = "open" /\ delivered["c2"] = <<>>
    /\ tail_pos - rx_next["c2"] > BufferSize
    /\ ticks = MaxTicks
    /\ conn["c1"] = "open"
    /\ Len(delivered["c1"]) = MaxTicks
    /\ \A i \in 1..MaxTicks :
          delivered["c1"][i] = TimeUpdateEvent("c1", TimeEventNew(i))

\* The stream of connection c has reported no lag.
NoLag(c) ==
    \A i \in 1..Len(delivered[c]) : delivered[c][i].event = "time-update"

\* The number of stored values the stream of connection c has yet to receive.
Behind(c) == tail_pos - rx_next[c]

\* Connection c is created.
Subscribes(c) == conn[c] = "none" /\ conn'[c] = "open"

\* C23: a subscriber that is never more than the channel capacity behind
\* when it reads receives every value broadcast after its subscription once
\* and in send order, each as one time-update event, until it disconnects,
\* and no value broadcast before its subscription: its receiver starts behind
\* everything sent so far, a read at most the capacity behind yields the next
\* value and no lag report, the events of a stream without a lag report are
\* those of the consecutive values up to its position, the values are stored
\* in the order of their instants, and a stream that is read reaches the tail.
C23_EveryMessageOnce ==
    /\ [][\A c \in Conns :
            /\ Subscribes(c) => /\ rx_next'[c] = Len(sse_log)
                                /\ delivered'[c] = <<>>
            /\ (Yields(c) /\ Behind(c) <= ChannelCapacity)
                  => /\ delivered'[c]
                          = Append(delivered[c],
                                   TimeUpdateEvent(c, sse_log[rx_next[c] + 1]))
                     /\ rx_next'[c] = rx_next[c] + 1
            /\ conn[c] \in {"dropped", "ended"} => delivered'[c] = delivered[c]]_vars
    /\ [](\A c \in Conns :
            NoLag(c)
               => /\ Len(delivered[c]) <= rx_next[c]
                  /\ \A i \in 1..Len(delivered[c]) :
                        delivered[c][i]
                           = TimeUpdateEvent(
                                c, sse_log[rx_next[c] - Len(delivered[c]) + i]))
    /\ [](\A i, j \in 1..Len(sse_log) :
            i < j => sse_log[i].timestamp < sse_log[j].timestamp)
    /\ \A c \in Conns :
          (conn[c] = "open") ~> (conn[c] # "open" \/ rx_next[c] = tail_pos)

\* The stream of c1, created after values were broadcast to c2, has kept up
\* and received all the values sent since, and none of the earlier ones.
C23_Witness ==
    /\ conn["c1"] = "open" /\ NoLag("c1")
    /\ rx_next["c1"] = tail_pos
    /\ Len(delivered["c1"]) >= 2
    /\ Len(delivered["c1"]) < tail_pos
    /\ delivered["c1"][1].data.timestamp = tail_pos - Len(delivered["c1"]) + 1

\* C24: a broadcaster task that was started never ends: at every tick of its
\* timer it sends one new TimeEvent; a tick with no subscriber drops the
\* value (nothing is stored) and the task goes on to its next tick, so that a
\* client that subscribes later receives the values of the ticks after its
\* subscription.
C24_BroadcasterNeverStops ==
    /\ [][broadcasters' >= broadcasters]_vars
    /\ [][Sends => /\ ticks' = ticks + 1
                   /\ IF ReceiverCount = 0
                      THEN /\ channel' = channel /\ tail_pos' = tail_pos
                           /\ sse_log' = sse_log
                      ELSE /\ sse_log' = Append(sse_log, TimeEventNew(ticks'))
                           /\ \A c \in Conns :
                                 conn[c] = "open" => rx_next[c] < tail_pos']_vars
    /\ [](broadcasters > 0 => ENABLED BroadcasterTick \/ ticks = MaxTicks)
    /\ (broadcasters > 0) ~> (broadcasters > 0 /\ ticks = MaxTicks)
    /\ \A c \in Conns :
          (conn[c] = "open" /\ rx_next[c] < tail_pos)
             ~> (conn[c] # "open" \/ Len(delivered[c]) > 0)

\* Ticks went by with no subscriber, their values dropped; the stream of c1,
\* created afterwards, has received the value of a later tick.
C24_Witness ==
    /\ broadcasters > 0
    /\ tail_pos < ticks
    /\ conn["c1"] = "open" /\ conn["c2"] = "none"
    /\ Len(delivered["c1"]) > 0
    /\ delivered["c1"][1].event = "time-update"
    /\ delivered["c1"][1].data.timestamp > 1
    /\ sse_log[1].timestamp > 1

\* The poll_next of connection c, entered on a timer tick, comes to its end.
Finishes(c) ==
    /\ stream[c] = "open"
    /\ pc[StreamTask(c)] = "done"
    /\ pc'[StreamTask(c)] = "idle"

\* The data of the tick is a full or partial snapshot that StatusData::new
\* accepts.
TickHasStatus(c) ==
    /\ result[StreamTask(c)].tag \in SuccessTags
    /\ collection_interval_seconds >= 1
    /\ result[StreamTask(c)].data \notin invalid_metrics
    /\ ServerInfoValidate(server_info)

\* The poll_next that ends in this step has yielded one event: a
\* status-update with the tick's data, or an error with the minimal status.
YieldsOneEvent(c) ==
    /\ stream'[c] = "open"
    /\ Len(emitted'[c]) = Len(emitted[c]) + 1
    /\ LET e == emitted'[c][Len(emitted'[c])]
       IN IF TickHasStatus(c)
          THEN /\ e.event = "status-update"
               /\ e.data.data.server_metrics = result[StreamTask(c)].data
          ELSE /\ e.event = "error"
               /\ e.data.data.server_metrics = MinimalMetrics
               /\ e.data.data.collection_interval_seconds = MinimalStatusInterval

\* C25: no tick ends a metrics stream: every poll_next that a timer tick
\* starts yields exactly one event and leaves the stream open, a
\* status-update when the cache returned full or partial data that passes
\* StatusData validation, and an error event with the minimal status
\* otherwise (hard Error or validation failure).
C25_EveryTickYieldsEvent ==
    /\ [](\A c \in Conns : stream[c] # "panicked")
    /\ [][\A c \in Conns : Finishes(c) => YieldsOneEvent(c)]_vars

\* What holds of the code: the same for a ServerInfo that passes validation.
C25_ValidInfoYieldsEvent ==
    [][\A c \in Conns :
         Finishes(c) /\ ServerInfoValidate(server_info) => YieldsOneEvent(c)]_vars

\* A poll_next has panicked on its first tick; the other stream has yielded
\* nothing either.
C25_Witness ==
    /\ stream["c1"] = "panicked"
    /\ emitted["c1"] = <<>>
    /\ ~ServerInfoValidate(server_info)

\* With a valid ServerInfo: an error event for a hard Error and a
\* status-update on one stream.
C25_ValidWitness ==
    /\ ServerInfoValidate(server_info)
    /\ Len(emitted["c1"]) = 2
    /\ emitted["c1"][1].event = "error"
    /\ emitted["c1"][2].event = "status-update"

\* C26: on one metrics stream the i-th event carries sequence i - 1 in its
\* payload, whatever its kind, and that number in decimal as its SSE id; the
\* stream's sequence and events_sent both equal the number of events it has
\* emitted.
C26_SequenceCountsEvents ==
    \A c \in Conns :
       /\ \A i \in 1..Len(emitted[c]) :
             /\ emitted[c][i].data.sequence = i - 1
             /\ emitted[c][i].id = ToString(emitted[c][i].data.sequence)
             /\ emitted[c][i].event \in {"status-update", "error"}
       /\ sequence[c] = Len(emitted[c])
       /\ events_sent[c] = Len(emitted[c])

\* One stream has emitted a status-update and then an error event.
C26_Witness ==
    /\ Len(emitted["c2"]) = 2
    /\ emitted["c2"][1].event = "status-update"
    /\ emitted["c2"][2].event = "error"
    /\ emitted["c2"][2].id = "1"

\* The poll_next of connection c begins its tick.
StartsTick(c) ==
    /\ stream[c] = "open"
    /\ pc[StreamTask(c)] = "idle"
    /\ pc'[StreamTask(c)] # "idle"

\* The key all streams share has an entry that is within its TTL.
DefaultIsLive ==
    /\ "default" \in DOMAIN cache
    /\ ~IsExpired(cache["default"], config.ttl)

\* Task t has found its entry and is on its way to return it.
OnHitPath(t) == pc[t] \in {"get_hit_order", "get_hit_stats"}

\* C27: a tick of a metrics stream enters the cache's get_metrics with the
\* key "default", the same for every connection, and calls no Collector by
\* itself; the Collector is called only inside a get_metrics whose lookup
\* missed.  A lookup that finds a live entry under "default" goes on to
\* return that entry's data and never reaches the Collector, however many
\* streams are ticking.
C27_TicksShareTheCache ==
    /\ [](\A c \in Conns :
            stream[c] # "none" /\ pc[StreamTask(c)] # "idle"
               => key[StreamTask(c)] = "default" /\ call[StreamTask(c)] = "get_metrics")
    /\ [][\A c \in Conns :
            StartsTick(c) => /\ pc'[StreamTask(c)] = "get_lookup"
                             /\ key'[StreamTask(c)] = "default"
                             /\ total_collections' = total_collections
                             /\ cache' = cache]_vars
    /\ [][total_collections' # total_collections
            => \E t \in Tasks : /\ pc[t] = "get_collect" /\ pc'[t] # pc[t]
                                /\ total_collections' = total_collections + 1]_vars
    /\ [][\A t \in Tasks :
            /\ pc'[t] = "get_miss_stats" /\ pc[t] # pc'[t]
                  => pc[t] = "get_lookup" /\ ~DefaultIsLive
            /\ pc'[t] = "get_collect" /\ pc[t] # pc'[t] => pc[t] = "get_miss_stats"
            /\ pc[t] = "get_lookup" /\ pc'[t] # pc[t] /\ DefaultIsLive
                  => pc'[t] = "get_hit_order"
            /\ OnHitPath(t) /\ pc'[t] # pc[t]
                  => /\ OnHitPath(t)' \/ pc'[t] = "done"
                     /\ total_collections' = total_collections
                     /\ result'[t] = IF pc[t] = "get_hit_order"
                                     THEN MetricsOk(cache["default"].data)
                                     ELSE result[t]]_vars

\* Two streams: the tick of c1 collected the first snapshot, and the tick of
\* c2 was served that snapshot from the cache with no second Collector call.
C27_Witness ==
    /\ total_collections = 1
    /\ stats.cache_hits = 1
    /\ Len(emitted["c1"]) = 1 /\ Len(emitted["c2"]) = 1
    /\ emitted["c1"][1].event = "status-update"
    /\ emitted["c2"][1].event = "status-update"
    /\ emitted["c1"][1].data.data.server_metrics = 1
    /\ emitted["c2"][1].data.data.server_metrics = 1
    /\ emitted["c2"][1].data.sequence = 0

\* The error values at hand: those of the Vec and the one the last failed
\* get_server_status was answered for.
ErrorsAtHand ==
    Elements(errors)
    \cup (IF response = NoResponse THEN {} ELSE {response.body.error})

\* What the methods answer for v: computed here for the values of the Vec,
\* and read from the response's details for the value the handler answered.
AnswersFor(v) ==
    IF response # NoResponse /\ v = response.body.error
    THEN response.body.details
    ELSE [recoverable |-> IsRecoverable(v),
          severity |-> Severity(v),
          retry_delay_ms |-> RetryDelayMs(v)]

\* severity s is the maximum of the severities of the errors in v.
IsMaxSeverityOf(s, v) ==
    /\ \E x \in Elements(v.errors) : Severity(x) = s
    /\ \A x \in Elements(v.errors) : SeverityRank(Severity(x)) <= SeverityRank(s)

\* delay d is the least retry delay of the recoverable errors in v, and None
\* when none of them is recoverable.
IsMinDelayOf(d, v) ==
    LET rec == {x \in Elements(v.errors) : IsRecoverable(x)}
    IN IF rec = {} THEN d = NoneValue
       ELSE /\ d.some
            /\ \A x \in rec : RetryDelayMs(x).some /\ d.value <= RetryDelayMs(x).value
            /\ \E x \in rec : RetryDelayMs(x).some /\ d.value = RetryDelayMs(x).value

MultipleErrorsAtHand == {v \in ErrorsAtHand : v.kind = "MultipleErrors"}

\* C28, as stated: for a MultipleErrors value over any list of errors, nested
\* ones included, is_recoverable is true iff one of the contained errors is
\* recoverable, severity is the maximum of their severities, and
\* retry_delay_ms is the least delay of the recoverable ones, None when there
\* is none.
C28_Original ==
    \A v \in MultipleErrorsAtHand :
       /\ AnswersFor(v).recoverable
             <=> \E x \in Elements(v.errors) : IsRecoverable(x)
       /\ IsMaxSeverityOf(AnswersFor(v).severity, v)
       /\ IsMinDelayOf(AnswersFor(v).retry_delay_ms, v)

\* C28: the same, where the severity is the maximum of the contained
\* severities for a non-empty list and Error for the empty list.
C28_MultipleErrorsCombine ==
    \A v \in MultipleErrorsAtHand :
       /\ AnswersFor(v).recoverable
             <=> \E x \in Elements(v.errors) : IsRecoverable(x)
       /\ IF v.errors = <<>>
          THEN AnswersFor(v).severity = "Error"
          ELSE IsMaxSeverityOf(AnswersFor(v).severity, v)
       /\ IsMinDelayOf(AnswersFor(v).retry_delay_ms, v)

\* get_server_status has answered for a MultipleErrors of a nested
\* MultipleErrors and a Timeout: recoverable, Critical, retry after 1000 ms.
C28_Witness ==
    /\ response # NoResponse
    /\ response.body.error =
          Multiple(<<Multiple(<<LeafError("OutOfMemory")>>), LeafError("Timeout")>>)
    /\ response.body.details.recoverable
    /\ response.body.details.severity = "Critical"
    /\ response.body.details.retry_delay_ms = Some(1000)

\* C29: for an error value of any kind, MultipleErrors of any contents
\* included, retry_delay_ms is None exactly when is_recoverable is false.
C29_NoDelayIffNotRecoverable ==
    \A v \in ErrorsAtHand :
       (AnswersFor(v).retry_delay_ms = NoneValue) <=> ~AnswersFor(v).recoverable

\* get_server_status has answered for a MultipleErrors with nothing
\* recoverable in it, an empty MultipleErrors among its contents.
C29_Witness ==
    /\ response # NoResponse
    /\ response.body.error = Multiple(<<Multiple(<<>>), LeafError("ParseError")>>)
    /\ response.body.details.retry_delay_ms = NoneValue
    /\ ~response.body.details.recoverable

\* C30: the response of a get_server_status that failed with a collection
\* error has the status code of the error's severity and nothing else
\* (Warning 200, Error 503, Critical 500), an error_type, and in its details
\* the error's recoverable, severity and retry_delay_ms.
C30_StatusBySeverity ==
    response # NoResponse =>
       LET e == response.body.error
           details == response.body.details
       IN /\ details.severity = Severity(e)
          /\ details.recoverable = IsRecoverable(e)
          /\ details.retry_delay_ms = RetryDelayMs(e)
          /\ DOMAIN details = {"recoverable", "severity", "retry_delay_ms"}
          /\ details.severity = "Warning"
                => response.status = 200 /\ response.body.error_type = "metrics_warning"
          /\ details.severity = "Error"
                => response.status = 503 /\ response.body.error_type = "metrics_error"
          /\ details.severity = "Critical"
                => response.status = 500 /\ response.body.error_type = "metrics_critical"
          /\ details.severity \in {"Warning", "Error", "Critical"}

\* The response to a MultipleErrors whose severity comes from a
\* ServiceNotInitialized inside it: 500.
C30_Witness ==
    /\ response # NoResponse
    /\ response.status = 500
    /\ response.body.error =
          Multiple(<<LeafError("NetworkError"), LeafError("ServiceNotInitialized")>>)
    /\ response.body.error_type = "metrics_critical"
    /\ response.body.details.retry_delay_ms = Some(2000)

\* C31, as stated: the response to a recoverable collection error has status
\* 503, and a response has status 500 only for a critical or internal error.
C31_Original ==
    response # NoResponse =>
       /\ response.body.details.recoverable => response.status = 503
       /\ response.status = 500
             => \/ response.body.details.severity = "Critical"
                \/ response.body.error.kind = "Internal"

\* C31: the response to a recoverable collection error has the status of the
\* error's severity, 200 for Warning, 503 for Error and 500 for Critical;
\* status 503 is given exactly for severity Error, recoverable or not, and
\* status 500 only for severity Critical.
C31_RecoverableBySeverity ==
    response # NoResponse =>
       LET details == response.body.details
       IN /\ details.recoverable
                => response.status = CASE details.severity = "Warning" -> 200
                                       [] details.severity = "Error" -> 503
                                       [] details.severity = "Critical" -> 500
          /\ response.status = 503 <=> details.severity = "Error"
          /\ response.status = 500 => details.severity = "Critical"
          /\ response.body.error.kind \in {"Timeout", "NetworkError", "Internal"}
                => details.recoverable /\ response.status = 200
          /\ response.body.error.kind = "OutOfMemory"
                => details.recoverable /\ response.status = 500

\* The response to a Timeout: recoverable, and answered with 200.
C31_Witness ==
    /\ response # NoResponse
    /\ response.body.error = LeafError("Timeout")
    /\ response.body.details.recoverable
    /\ response.status = 200

\* The parts of the last collection that failed, of memory, CPU, network and
\* uptime in this order.
MemoryFailed == ~CollectMemoryMetrics(system).ok
CpuFailed == ~CollectCpuMetrics(system).ok
NetworkFailed == collect_network_metrics /\ ~CollectNetworkMetrics(system).ok
UptimeFailed == system.uptime = 0
FailedParts ==
    (IF MemoryFailed THEN <<"MemoryError">> ELSE <<>>)
    \o (IF CpuFailed THEN <<"CpuError">> ELSE <<>>)
    \o (IF NetworkFailed THEN <<"NetworkError">> ELSE <<>>)
    \o (IF UptimeFailed THEN <<"SystemUnavailable">> ELSE <<>>)
KindsOf(errs) == [i \in 1..Len(errs) |-> errs[i].kind]
HasCollected == collection # NoResult

\* C32 as stated: whenever the memory part succeeded (total > 0) or the CPU
\* part succeeded (a core was detected, whatever its usage), the collection is
\* Ok or PartialData with one error per failed part and never a hard Error;
\* with no failed part it is Ok.
C32_Original ==
    HasCollected =>
        /\ (~MemoryFailed \/ ~CpuFailed) =>
              /\ collection.tag \in {"Ok", "PartialData"}
              /\ KindsOf(collection.errors) = FailedParts
        /\ FailedParts = <<>> => collection.tag = "Ok"

\* C32, what the Collector keeps: the same with the CPU part counted only
\* when its usage is above zero, or when at most one part failed.
C32_MeaningfulByUsage ==
    HasCollected =>
        /\ (~MemoryFailed \/ system.cpu_usage > 0 \/ Len(FailedParts) <= 1) =>
              /\ collection.tag \in {"Ok", "PartialData"}
              /\ KindsOf(collection.errors) = FailedParts
              /\ collection.tag = "Ok" <=> FailedParts = <<>>
        /\ collection.tag = "Error" =>
              /\ Len(FailedParts) >= 2
              /\ collection.errors = <<Multiple([i \in 1..Len(FailedParts) |->
                                                  LeafError(FailedParts[i])])>>

\* C32: the memory and uptime parts failed, a core was detected with a usage
\* of zero, and the collection is a hard Error.
C32_Witness ==
    /\ HasCollected
    /\ MemoryFailed /\ UptimeFailed /\ ~CpuFailed
    /\ system.cpu_usage = 0
    /\ collection.tag = "Error"

\* C32: a collection with a failed part beside a CPU part that succeeded with
\* a usage above zero is PartialData.
C32_PartialWitness ==
    /\ HasCollected
    /\ MemoryFailed /\ UptimeFailed /\ system.cpu_usage > 0
    /\ collection.tag = "PartialData"

\* A step of a request with force_refresh = true: the Collector is called and
\* no task of the cache moves.
ForcedRequest == total_collections' # total_collections /\ pc' = pc

\* C33: a request with force_refresh = true calls the Collector once, leaves
\* the entry map, the access order and every counter of the cache as they
\* were, and a response that carries metadata reports cached = false,
\* however short the collection was.
C33_ForceRefreshBypassesCache ==
    [][ForcedRequest =>
          /\ total_collections' = total_collections + 1
          /\ cache' = cache
          /\ access_order' = access_order
          /\ stats' = stats
          /\ response'.status = 200 => ~response'.metadata.cached]_vars

\* C33: a forced request has been answered with fresh data within less than
\* CachedBelowMs while the cache holds an entry and has counted a request.
C33_Witness ==
    /\ response # NoResponse
    /\ response.status = 200
    /\ response.metadata.collection_time_ms < CachedBelowMs
    /\ ~response.metadata.cached
    /\ stats.total_requests > 0
    /\ DOMAIN cache # {}

\* C34 as stated: at most one background refresh loop is alive at any time,
\* and no entry is being refreshed by two loops.
C34_Original ==
    /\ Cardinality(AliveLoops) <= 1
    /\ \A l1, l2 \in LoopIds :
          l1 # l2 => RefreshKeys(l1) \cap RefreshKeys(l2) = {}

\* C34: two loops are alive, each with a refresh task for the same entry.
C34_Witness ==
    \E l1, l2 \in AliveLoops :
        /\ l1 # l2
        /\ RefreshKeys(l1) \cap RefreshKeys(l2) # {}

\* C35: a background refresh inserts no key: the write of a refresh task
\* leaves the set of keys as it is, and when the key it was refreshing is no
\* longer in the map (clear, cleanup_expired or an eviction has removed it
\* since the scan) the result is dropped, the map, the access order and the
\* statistics, background_refreshes and failed_refreshes among them, staying
\* as they were.
C35_RefreshInsertsNoKey ==
    [][\A l \in LoopIds :
          AppliesRefresh(l)
             => /\ DOMAIN cache' = DOMAIN cache
                /\ Head(refreshes[l]).key \notin DOMAIN cache
                      => /\ cache' = cache
                         /\ access_order' = access_order
                         /\ stats'.background_refreshes = stats.background_refreshes
                         /\ stats'.failed_refreshes = stats.failed_refreshes
                         /\ stats' = stats]_vars

\* A refresh task has made its Collector call (the second call, the first
\* being that of the one miss) and has ended, after a clear emptied the map:
\* the map is still empty and neither refresh counter has moved.
C35_Witness ==
    /\ total_collections = 2
    /\ stats.cache_misses = 1
    /\ stats.background_refreshes = 0
    /\ stats.failed_refreshes = 0
    /\ \A l \in LoopIds : refreshes[l] = <<>>
    /\ \A t \in Tasks : Free(t)
    /\ call["t1"] = "clear"
    /\ cache = EmptyMap
    /\ access_order = <<>>

\* C36: every hit returns Ok: the result of the hit path is the stored
\* snapshot as Ok with no errors, also when the entry was stored from a
\* PartialData collection; a PartialData result comes to a caller only from
\* the Collector call of its own miss.
C36_HitsReturnOk ==
    [][\A t \in Tasks :
          /\ (pc[t] = "get_hit_order" /\ Moved(t))
                => /\ key[t] \in DOMAIN cache
                   /\ result'[t] = MetricsOk(cache[key[t]].data)
                   /\ result'[t].errors = <<>>
          /\ (pc[t] = "get_hit_stats" /\ Moved(t))
                => /\ result'[t] = result[t]
                   /\ result'[t].tag = "Ok"
                   /\ pc'[t] = "done"
          /\ (result'[t].tag = "PartialData" /\ result'[t] # result[t])
                => /\ pc[t] = "get_collect"
                   /\ total_collections' = total_collections + 1]_vars

\* The miss of one caller returned PartialData and stored its snapshot, and
\* the hit of the other caller has returned that snapshot as Ok.
C36_Witness ==
    /\ pc["t1"] = "done" /\ call["t1"] = "get_metrics"
    /\ pc["t2"] = "done" /\ call["t2"] = "get_metrics"
    /\ result["t1"].tag = "PartialData"
    /\ result["t2"] = MetricsOk(result["t1"].data)
    /\ stats.cache_misses = 1 /\ stats.cache_hits = 1
    /\ "a" \in DOMAIN cache /\ cache["a"].data = result["t1"].data

\* The access-order lock is taken by a task that holds the lock of the entry
\* map: between steps it is held by the writer of the map only, and a step
\* that changes the access order is taken by a task that holds the map's lock
\* or takes it first in that step.
LockOrderKept == ao_holder # NoTask => cache_writer = ao_holder

LockOrderStep ==
    access_order' # access_order
       => \E t \in Tasks :
             /\ Moved(t)
             /\ cache_writer = t \/ t \in cache_readers \/ cache_writer' = t

\* An operation that has begun can take a step, or waits for a lock that a
\* task holds which can take a step itself.
CanStep(t) == Collecting(t) \/ ENABLED (GetSteps(t) \/ MaintenanceGoesOn(t))
RefreshCanStep(l) == ENABLED (RefreshCollect(l) \/ RefreshApply(l))
LockHolderCanStep ==
    \E u \in Tasks : HoldsLock(u) /\ CanStep(u)

NoDeadlock ==
    /\ \A t \in Tasks : ~Free(t) => (CanStep(t) \/ LockHolderCanStep)
    /\ \A l \in LoopIds :
          refreshes[l] # <<>> => (RefreshCanStep(l) \/ LockHolderCanStep)

\* C37: no interleaving of gets (hit and miss), clear, cleanup_expired and
\* refresh tasks deadlocks: the access-order lock is taken under the lock of
\* the entry map only, the statistics being updated inside the steps; in
\* every state each operation that has begun can go on or waits for a lock
\* whose holder can go on; and, the Collector returning, every call that has
\* begun returns and every refresh task ends.
C37_NoDeadlock ==
    /\ [](LockOrderKept /\ NoDeadlock)
    /\ [][LockOrderStep]_vars
    /\ \A t \in Tasks : (~Free(t)) ~> Free(t)
    /\ \A l \in LoopIds : (refreshes[l] # <<>>) ~> (refreshes[l] = <<>>)

\* A get waits for the write lock for its insert and a refresh task for its
\* write while the other caller is in the middle of a clear, holding the lock
\* of the entry map and that of the access order.
C37_Witness ==
    /\ pc["t1"] = "get_put"
    /\ pc["t2"] = "clear_order"
    /\ cache_writer = "t2" /\ ao_holder = "t2"
    /\ \E l \in LoopIds :
          refreshes[l] # <<>> /\ Head(refreshes[l]).stage = "apply"

\* The get_metrics calls that have counted their request and neither a hit
\* nor a miss yet.
Uncounted ==
    {t \in Tasks : pc[t] \in {"get_lookup", "get_hit_order", "get_hit_stats",
                              "get_miss_stats"}}

\* The three request counters.
RequestCounters == <<stats.total_requests, stats.cache_hits, stats.cache_misses>>

\* The steps that count: the entry of a get_metrics counts the request, the
\* end of its hit path a hit, the start of its miss path a miss, the miss
\* before the Collector is called and so whatever the Collector returns;
\* no other step changes one of the three counters.
CountingStep ==
    /\ \A t \in Tasks :
          /\ (Free(t) /\ Moved(t) /\ call'[t] = "get_metrics")
                => RequestCounters' = <<stats.total_requests + 1, stats.cache_hits,
                                        stats.cache_misses>>
          /\ (pc[t] = "get_hit_stats" /\ Moved(t))
                => RequestCounters' = <<stats.total_requests, stats.cache_hits + 1,
                                        stats.cache_misses>>
          /\ (pc[t] = "get_miss_stats" /\ Moved(t))
                => RequestCounters' = <<stats.total_requests, stats.cache_hits,
                                        stats.cache_misses + 1>>
    /\ RequestCounters' # RequestCounters
          => \E t \in Tasks :
                /\ Moved(t)
                /\ \/ Free(t) /\ call'[t] = "get_metrics"
                   \/ pc[t] \in {"get_hit_stats", "get_miss_stats"}

\* C38: in every state total_requests >= cache_hits + cache_misses, the
\* difference being the gets that have not yet counted their hit or miss, so
\* that the two sides are equal whenever no get is in progress; each get
\* counts its request once and then one hit or one miss, whether the
\* collection succeeds, is partial or fails.
C38_RequestsAreHitsPlusMisses ==
    /\ [](/\ stats.total_requests >= stats.cache_hits + stats.cache_misses
          /\ stats.total_requests
                = stats.cache_hits + stats.cache_misses + Cardinality(Uncounted)
          /\ (\A t \in Tasks : ~InGet(t))
                => stats.total_requests = stats.cache_hits + stats.cache_misses)
    /\ [][CountingStep]_vars

\* A get has returned a hard Error, counted as one request and one miss,
\* while the other caller's get has counted its request only.
C38_Witness ==
    /\ pc["t1"] = "done" /\ call["t1"] = "get_metrics"
    /\ result["t1"].tag = "Error"
    /\ pc["t2"] = "get_lookup"
    /\ stats.total_requests = 2
    /\ stats.cache_misses = 1 /\ stats.cache_hits = 0

\* The keys of the access order.
OrderKeys == {access_order[i] : i \in 1..Len(access_order)}

\* No task holds the lock of the entry map, for reading or for writing.
MapLockFree == cache_writer = NoTask /\ cache_readers = {}

\* C39: whenever no operation holds the lock of the entry map, every key of
\* the map, expired or not, is in the access order, and the keys of the map
\* are the keys of the access order.
C39_MapKeysAreOrderKeys ==
    MapLockFree => /\ DOMAIN cache \subseteq OrderKeys
                   /\ DOMAIN cache = OrderKeys

\* The map is full with two entries, one of them expired, after an eviction,
\* and no task holds a lock.
C39_Witness ==
    /\ MapLockFree
    /\ \A t \in Tasks : Free(t)
    /\ Cardinality(DOMAIN cache) = 2
    /\ \E k \in DOMAIN cache : IsExpired(cache[k], config.ttl)
    /\ stats.evictions > 0

\* The running refresh task of loop l takes a step: its Collector call
\* returns, or it writes its result.
RefreshStep(l) == refreshes[l] # <<>> /\ refreshes'[l] # refreshes[l]

\* C40: a background refresh changes the data and the creation instant of
\* the entry it refreshes and the two refresh counters, and nothing else of
\* the cache: the keys of the map, the access order, every other entry, the
\* refreshed entry's access_count and last-access instant, and
\* total_requests, cache_hits, cache_misses and evictions stay as they were.
C40_RefreshFrame ==
    [][\A l \in LoopIds :
          RefreshStep(l)
             => /\ DOMAIN cache' = DOMAIN cache
                /\ access_order' = access_order
                /\ \A k \in DOMAIN cache :
                      /\ k # Head(refreshes[l]).key => cache'[k] = cache[k]
                      /\ cache'[k] = [cache[k] EXCEPT !.data = cache'[k].data,
                                                      !.created_at = cache'[k].created_at]
                      /\ cache'[k].access_count = cache[k].access_count
                      /\ cache'[k].accessed_at = cache[k].accessed_at
                /\ stats' = [stats EXCEPT
                               !.background_refreshes = stats'.background_refreshes,
                               !.failed_refreshes = stats'.failed_refreshes]
                /\ stats'.total_requests = stats.total_requests
                /\ stats'.cache_hits = stats.cache_hits
                /\ stats'.cache_misses = stats.cache_misses
                /\ stats'.evictions = stats.evictions]_vars

\* A refresh has been written on an entry after its last access: the entry
\* was created later than it was last accessed, with the one access of its
\* insert, and its key is where it was in the access order.
C40_Witness ==
    /\ stats.background_refreshes > 0
    /\ \E k \in DOMAIN cache :
          /\ cache[k].created_at > cache[k].accessed_at
          /\ cache[k].access_count = 1
          /\ \E i \in 1..Len(access_order) : access_order[i] = k
====
